---- MODULE Spec2Model ----
(***************************************************************************)
(* Incremental cache reconciliation of the reporting application:          *)
(* utils/cache_utils.py (unified cache documents, the missing-date         *)
(* planner) and utils/superset_utils.py (the fetch / merge orchestration). *)
(*                                                                         *)
(* Dates.  The code handles dates as 'YYYY-MM-DD' strings, compares them   *)
(* as strings and steps them with datetime/timedelta.  A canonical date    *)
(* string is represented by its day ordinal (a positive integer): the      *)
(* string order of two canonical dates is the order of their ordinals, and *)
(* timedelta(days=n) adds n.                                               *)
(*                                                                         *)
(* Cells.  A row is a sequence of cells.  Every cell is an integer code:   *)
(* a number below FirstTagCode is a canonical date string, any other code  *)
(* is a tag id or tag name, i.e. a string that starts with a letter        *)
(* ("tag_<id>_<i>", "Mock Tag <i>") and therefore sorts after every date.  *)
(***************************************************************************)
EXTENDS Integers, Sequences, FiniteSets, TLC

VARIABLES store, today, last, threads, rules, rules_file

vars == <<store, today, last, threads, rules, rules_file>>

---------------------------------------------------------------------------
(* Bounds of the model *)

\* dates of the rows offered to the cache in Spec are 1..MaxDay
MaxDay == 3

\* documents of Spec hold at most MaxRows rows
MaxRows == 2

\* the requests of SpecPlan lie in 1..PlanHorizon
PlanHorizon == 41

\* the processing date of SpecAlert
AlertToday == 16

\* the rule sets of SpecRules hold at most MaxConditions custom conditions
MaxConditions == 2

\* depth at which the interpreter gives up a runaway recursion (RecursionError)
RecursionLimit == 5

---------------------------------------------------------------------------
(* Program constants *)

\* validate_data_structure looks at data[:5]
ValidateSampleSize == 5

\* get_date_ranges_to_query: (end - start).days <= 21 is one range
ChunkCeilingDays == 21

\* get_date_ranges_to_query: chunk_end = current + timedelta(days=13)
ChunkStepDays == 13

\* fetch_query2_in_smaller_chunks: chunk_end = current + timedelta(days=6)
SmallChunkStepDays == 6

FirstTagCode == 100

---------------------------------------------------------------------------
(* Helpers *)

Min(a, b) == IF a <= b THEN a ELSE b

Max(a, b) == IF a >= b THEN a ELSE b

Range(s) == {s[i] : i \in 1..Len(s)}

\* list.index(x), 1-based; 0 stands for ValueError
IndexOf(s, x) ==
    IF \E i \in 1..Len(s) : s[i] = x
    THEN CHOOSE i \in 1..Len(s) : s[i] = x /\ \A j \in 1..(i - 1) : s[j] # x
    ELSE 0

\* data[:n]
Take(s, n) == SubSeq(s, 1, Min(n, Len(s)))

\* str(a) >= b for a cell a and a canonical date b
StrGE(a, b) == IF a < FirstTagCode THEN a >= b ELSE TRUE

\* str(a) <= b for a cell a and a canonical date b
StrLE(a, b) == IF a < FirstTagCode THEN a <= b ELSE FALSE

---------------------------------------------------------------------------
(* Column layouts and documents *)

\* the column order of the SQL select lists (tag_name ... tag_id ... date_key)
ColsSql == <<"tag_name", "tag_id", "date_key">>

\* the column order of generate_mock_data (date_key, tag_id, tag_name ...)
ColsMock == <<"date_key", "tag_id", "tag_name">>

\* a column list without tag_id
ColsNoTag == <<"tag_name", "seat_id", "date_key">>

ColsEmpty == <<>>

NoDoc == [exists |-> FALSE, columns |-> <<>>, data |-> <<>>]

generate_cache_key_one_class(query_type, entity_id) == <<"seat_id", entity_id>>

\* generate_cache_key: "seat_id_<id>" / "publisher_id_<id>"
generate_cache_key(query_type, entity_id) ==
    IF query_type = "query1" THEN <<"seat_id", entity_id>>
    ELSE <<"publisher_id", entity_id>>

Keys == {generate_cache_key(q, "e1") : q \in {"query1", "query2"}}

\* cache_get_unified: the stored document of a key, NoDoc when there is none
cache_get_unified(st, query_type, entity_id) ==
    st[generate_cache_key(query_type, entity_id)]

\* get_yesterday_date
get_yesterday_date(now) == now - 1

ensure_date_not_today_unchanged(date_str, now) == date_str

\* ensure_date_not_today
ensure_date_not_today(date_str, now) ==
    IF date_str >= now THEN get_yesterday_date(now) ELSE date_str

---------------------------------------------------------------------------
(* cache_set_unified *)

validate_data_structure_from_second(columns, data) ==
    /\ columns # <<>>
    /\ \A i \in 2..Len(Take(data, ValidateSampleSize)) : Len(data[i]) = Len(columns)

\* validate_data_structure: only the first ValidateSampleSize rows are looked at
validate_data_structure(columns, data) ==
    /\ columns # <<>>
    /\ \A i \in 1..Len(Take(data, ValidateSampleSize)) : Len(data[i]) = Len(columns)

\* the f"{row[date_key_index]}|{row[tag_id_index]}" key of a row; the cells of
\* the model hold no "|", so the pair determines the string and conversely
combo_key(row, date_key_index, tag_id_index) ==
    <<row[date_key_index], row[tag_id_index]>>

existing_combinations_forgotten(data, date_key_index, tag_id_index) == {}

\* lines 86-95: the keys of the stored rows that are long enough
existing_combinations(data, date_key_index, tag_id_index) ==
    {combo_key(data[i], date_key_index, tag_id_index) :
        i \in {j \in 1..Len(data) : Len(data[j]) >= Max(date_key_index, tag_id_index)}}

\* lines 101-112: row i of new_data reaches the key test, i.e. it is long
\* enough for both indices and its date_key cell is (as a string) below today
passes_row_checks(new_data, i, di, ti, now) ==
    /\ Len(new_data[i]) >= Max(di, ti)
    /\ ~StrGE(new_data[i][di], now)

append_new_rows_last_wins(data, combos, new_data, di, ti, now) ==
    LET fresh == {i \in 1..Len(new_data) :
                     /\ passes_row_checks(new_data, i, di, ti, now)
                     /\ combo_key(new_data[i], di, ti) \notin combos}
        appended(i) ==
            /\ i \in fresh
            /\ \A j \in fresh : j > i =>
                   combo_key(new_data[j], di, ti) # combo_key(new_data[i], di, ti)
        order == SelectSeq([i \in 1..Len(new_data) |-> i], appended)
    IN  data \o [k \in 1..Len(order) |-> new_data[order[k]]]

\* lines 97-125: the loop over new_data.  Row i is appended when it passes the
\* row checks and its key is not in existing_combinations at that moment: the
\* key is not among the stored rows' keys (combos) and no earlier row of the
\* batch that passed the checks has the same key (line 117 added that key)
append_new_rows(data, combos, new_data, di, ti, now) ==
    LET fresh == {i \in 1..Len(new_data) :
                     /\ passes_row_checks(new_data, i, di, ti, now)
                     /\ combo_key(new_data[i], di, ti) \notin combos}
        appended(i) ==
            /\ i \in fresh
            /\ \A j \in fresh : j < i =>
                   combo_key(new_data[j], di, ti) # combo_key(new_data[i], di, ti)
        order == SelectSeq([i \in 1..Len(new_data) |-> i], appended)
    IN  data \o [k \in 1..Len(order) |-> new_data[order[k]]]

cache_set_unified_early_write(existing_cache, columns, new_data, now) ==
    LET tag_id_index == IndexOf(columns, "tag_id")
        date_key_index == IndexOf(columns, "date_key")
        adopted == [exists |-> TRUE, columns |-> columns, data |-> existing_cache.data]
    IN  IF ~validate_data_structure(columns, new_data)
        THEN [ok |-> FALSE, stored |-> existing_cache]
        ELSE IF tag_id_index = 0 \/ date_key_index = 0
        THEN [ok |-> FALSE, stored |-> adopted]
        ELSE [ok |-> TRUE,
              stored |-> [adopted EXCEPT !.data =
                  append_new_rows(existing_cache.data,
                      existing_combinations(existing_cache.data,
                                            date_key_index, tag_id_index),
                      new_data, date_key_index, tag_id_index, now)]]

cache_set_unified_keep_columns(existing_cache, columns, new_data, now) ==
    LET tag_id_index == IndexOf(columns, "tag_id")
        date_key_index == IndexOf(columns, "date_key")
    IN  IF ~validate_data_structure(columns, new_data)
        THEN [ok |-> FALSE, stored |-> existing_cache]
        ELSE IF tag_id_index = 0 \/ date_key_index = 0
        THEN [ok |-> FALSE, stored |-> existing_cache]
        ELSE [ok |-> TRUE,
              stored |-> [exists |-> TRUE,
                          columns |-> IF existing_cache.exists
                                      THEN existing_cache.columns ELSE columns,
                          data |-> append_new_rows(existing_cache.data,
                              existing_combinations(existing_cache.data,
                                                    date_key_index, tag_id_index),
                              new_data, date_key_index, tag_id_index, now)]]

\* cache_set_unified on the document existing_cache of the key (NoDoc when absent):
\* ok is the return value, stored the document of the key after the call
cache_set_unified(existing_cache, columns, new_data, now) ==
    LET tag_id_index == IndexOf(columns, "tag_id")
        date_key_index == IndexOf(columns, "date_key")
    IN  IF ~validate_data_structure(columns, new_data)
        THEN [ok |-> FALSE, stored |-> existing_cache]
        ELSE IF tag_id_index = 0 \/ date_key_index = 0
        THEN [ok |-> FALSE, stored |-> existing_cache]
        ELSE [ok |-> TRUE,
              stored |-> [exists |-> TRUE,
                          columns |-> columns,
                          data |-> append_new_rows(existing_cache.data,
                              existing_combinations(existing_cache.data,
                                                    date_key_index, tag_id_index),
                              new_data, date_key_index, tag_id_index, now)]]

---------------------------------------------------------------------------
(* The missing-date planner *)

RECURSIVE chunk_loop_overlap(_, _)
chunk_loop_overlap(current, end) ==
    IF current > end THEN <<>>
    ELSE LET chunk_end == Min(current + ChunkStepDays, end)
         IN  <<<<current, chunk_end>>>> \o chunk_loop_overlap(chunk_end, end - 1)

\* lines 234-240: the while loop that cuts [current, end] into 14-day chunks
RECURSIVE chunk_loop(_, _)
chunk_loop(current, end) ==
    IF current > end THEN <<>>
    ELSE LET chunk_end == Min(current + ChunkStepDays, end)
         IN  <<<<current, chunk_end>>>> \o chunk_loop(chunk_end + 1, end)

\* get_date_ranges_to_query
get_date_ranges_to_query(date_from, date_to) ==
    IF date_to - date_from <= ChunkCeilingDays
    THEN <<<<date_from, date_to>>>>
    ELSE chunk_loop(date_from, date_to)

\* sorted(missing_dates)
RECURSIVE sorted(_)
sorted(S) ==
    IF S = {} THEN <<>>
    ELSE LET m == CHOOSE x \in S : \A y \in S : x <= y
         IN  <<m>> \o sorted(S \ {m})

RECURSIVE contiguous_ranges_skip_gap(_, _, _, _)
contiguous_ranges_skip_gap(missing_dates, i, start_date, end_date) ==
    IF i > Len(missing_dates) THEN <<<<start_date, end_date>>>>
    ELSE IF missing_dates[i] - missing_dates[i - 1] <= 2
    THEN contiguous_ranges_skip_gap(missing_dates, i + 1, start_date, missing_dates[i])
    ELSE <<<<start_date, end_date>>>>
         \o contiguous_ranges_skip_gap(missing_dates, i + 1,
                                       missing_dates[i], missing_dates[i])

\* lines 254-272: the loop that groups the sorted missing dates into runs,
\* from position i on, with the run [start_date, end_date] open
RECURSIVE contiguous_ranges(_, _, _, _)
contiguous_ranges(missing_dates, i, start_date, end_date) ==
    IF i > Len(missing_dates) THEN <<<<start_date, end_date>>>>
    ELSE IF missing_dates[i] - missing_dates[i - 1] = 1
    THEN contiguous_ranges(missing_dates, i + 1, start_date, missing_dates[i])
    ELSE <<<<start_date, end_date>>>>
         \o contiguous_ranges(missing_dates, i + 1, missing_dates[i], missing_dates[i])

\* lines 275-277: chunked_ranges.extend(get_date_ranges_to_query(...)) per run
RECURSIVE chunk_each(_, _)
chunk_each(ranges, i) ==
    IF i > Len(ranges) THEN <<>>
    ELSE get_date_ranges_to_query(ranges[i][1], ranges[i][2]) \o chunk_each(ranges, i + 1)

\* get_date_ranges_to_query_from_dates
get_date_ranges_to_query_from_dates(missing_dates) ==
    IF missing_dates = <<>> THEN <<>>
    ELSE chunk_each(contiguous_ranges(missing_dates, 2,
                                      missing_dates[1], missing_dates[1]), 1)

cached_dates_forgotten(cache_object) == {}

cached_dates_whole_span(cache_object) ==
    LET date_key_index == IndexOf(cache_object.columns, "date_key")
        found == {cache_object.data[i][date_key_index] : i \in 1..Len(cache_object.data)}
    IN  {d \in 1..PlanHorizon : \E a, b \in found : a <= d /\ d <= b}

\* lines 189-195: the date_key cells of the stored rows that are long enough
cached_dates(cache_object) ==
    LET date_key_index == IndexOf(cache_object.columns, "date_key")
    IN  {cache_object.data[i][date_key_index] :
            i \in {j \in 1..Len(cache_object.data) :
                      Len(cache_object.data[j]) >= date_key_index}}

find_missing_dates_keep_today(cache_object, date_from, date_to, now) ==
    IF date_from > date_to THEN <<>>
    ELSE IF ~cache_object.exists THEN get_date_ranges_to_query(date_from, date_to)
    ELSE get_date_ranges_to_query_from_dates(
             sorted((date_from..date_to) \ cached_dates(cache_object)))

\* find_missing_dates, on the document cache_get_unified returns for the entity
find_missing_dates(cache_object, date_from, date_to, now) ==
    LET to == ensure_date_not_today(date_to, now)
    IN  IF date_from > to THEN <<>>
        ELSE IF ~cache_object.exists THEN get_date_ranges_to_query(date_from, to)
        ELSE IF IndexOf(cache_object.columns, "date_key") = 0
        THEN get_date_ranges_to_query(date_from, to)
        ELSE get_date_ranges_to_query_from_dates(
                 sorted((date_from..to) \ cached_dates(cache_object)))

---------------------------------------------------------------------------
(* The upstream query service *)

\* tag ids and the tag name of the rows the upstream service holds
ProviderTags == {101, 102}

ProviderName == 201

\* tag ids generate_mock_data makes up: 3 per day for query1, 2 for query2
MockTags(query_type) == IF query_type = "query1" THEN {111, 112, 113} ELSE {121, 122}

\* the rows of one day, one per tag in S in the order of the tag ids: a
\* provider row is (tag_name, tag_id, date_key), a mock row
\* (date_key, tag_id, tag_name) with a tag name of its own per tag
RECURSIVE rows_of_tags(_, _, _)
rows_of_tags(S, d, mock) ==
    IF S = {} THEN <<>>
    ELSE LET t == CHOOSE x \in S : \A y \in S : x <= y
         IN  <<IF mock THEN <<d, t, t + FirstTagCode>> ELSE <<ProviderName, t, d>>>>
             \o rows_of_tags(S \ {t}, d, mock)

\* what the upstream holds: behaviour.data = "all": rows for every day,
\* "odd": rows for the odd days only, "none": no rows at all
HasData(behaviour, d) ==
    \/ behaviour.data = "all"
    \/ behaviour.data = "odd" /\ d % 2 = 1

\* the result set of a query for [date_from, date_to], ORDER BY date_key DESC
RECURSIVE upstream_rows(_, _, _)
upstream_rows(behaviour, date_from, date_to) ==
    IF date_to < date_from THEN <<>>
    ELSE (IF HasData(behaviour, date_to)
          THEN rows_of_tags(ProviderTags, date_to, FALSE) ELSE <<>>)
         \o upstream_rows(behaviour, date_from, date_to - 1)

\* how requests.post ends for a query of [date_from, date_to]: a query that
\* spans more than behaviour.over days ends the way behaviour.kind says
\* ("timeout": requests.exceptions.Timeout, "error": a 4xx/5xx status)
http_outcome(behaviour, date_from, date_to) ==
    IF date_to - date_from + 1 > behaviour.over THEN behaviour.kind ELSE "ok"

fetch_from_superset_api_raising(behaviour, date_from, date_to) ==
    LET outcome == http_outcome(behaviour, date_from, date_to)
        rows == upstream_rows(behaviour, date_from, date_to)
    IN  IF outcome = "ok"
        THEN [columns |-> IF rows = <<>> THEN <<>> ELSE ColsSql, data |-> rows,
              raised |-> "none"]
        ELSE [columns |-> <<>>, data |-> <<>>,
              raised |-> IF outcome = "timeout" THEN "timeout" ELSE "none"]

\* fetch_from_superset_api for the SQL of one date range: every failure
\* (a status other than 200/202, Timeout, RequestException, any Exception)
\* is caught inside and answered with ([], []); nothing is raised
fetch_from_superset_api(behaviour, date_from, date_to) ==
    LET outcome == http_outcome(behaviour, date_from, date_to)
        rows == upstream_rows(behaviour, date_from, date_to)
    IN  IF outcome = "ok"
        THEN [columns |-> IF rows = <<>> THEN <<>> ELSE ColsSql, data |-> rows,
              raised |-> "none"]
        ELSE [columns |-> <<>>, data |-> <<>>, raised |-> "none"]

\* generate_mock_data: one row per day and mock tag, days ascending
RECURSIVE generate_mock_data(_, _, _)
generate_mock_data(date_from, date_to, query_type) ==
    IF date_from > date_to THEN <<>>
    ELSE rows_of_tags(MockTags(query_type), date_from, TRUE)
         \o generate_mock_data(date_from + 1, date_to, query_type)

---------------------------------------------------------------------------
(* The timeout fallback of query 2 *)

small_chunks_one_chunk(current, end) ==
    IF current > end THEN <<>> ELSE <<<<current, end>>>>

\* lines 552-558: the while loop that cuts [current, end] into 7-day chunks
RECURSIVE small_chunks(_, _)
small_chunks(current, end) ==
    IF current > end THEN <<>>
    ELSE LET chunk_end == Min(current + SmallChunkStepDays, end)
         IN  <<<<current, chunk_end>>>> \o small_chunks(chunk_end + 1, end)

\* A fetch result: columns, data, raised ("none", or the kind of the exception
\* that leaves the function) and calls, the date ranges handed to
\* fetch_from_superset_api, in call order.
Raised(kind, calls) == [columns |-> <<>>, data |-> <<>>, raised |-> kind, calls |-> calls]

RECURSIVE fetch_query2_with_timeout_fallback(_, _, _, _)
RECURSIVE fetch_query2_in_smaller_chunks(_, _, _, _)
RECURSIVE fetch_chunks(_, _, _, _, _, _, _)

\* lines 565-577: the loop over the 7-day chunks, from chunk i on; an
\* exception of a chunk is caught and the loop goes on
fetch_chunks(behaviour, chunks, i, columns, all_data, calls, depth) ==
    IF i > Len(chunks)
    THEN [columns |-> columns, data |-> all_data, raised |-> "none", calls |-> calls]
    ELSE LET r == fetch_query2_with_timeout_fallback(
                      behaviour, chunks[i][1], chunks[i][2], depth + 1)
         IN  IF r.raised = "none" /\ r.data # <<>>
             THEN fetch_chunks(behaviour, chunks, i + 1,
                               IF columns = <<>> THEN r.columns ELSE columns,
                               all_data \o r.data, calls \o r.calls, depth)
             ELSE fetch_chunks(behaviour, chunks, i + 1, columns, all_data,
                               calls \o r.calls, depth)

\* fetch_query2_in_smaller_chunks; depth is the depth of the call stack
fetch_query2_in_smaller_chunks(behaviour, date_from, date_to, depth) ==
    IF depth > RecursionLimit THEN Raised("recursion", <<>>)
    ELSE fetch_chunks(behaviour, small_chunks(date_from, date_to), 1,
                      <<>>, <<>>, <<>>, depth)

\* fetch_query2_with_timeout_fallback: an exception of the full-range call whose
\* text holds "timeout" starts the 7-day chunks, any other is raised again
fetch_query2_with_timeout_fallback(behaviour, date_from, date_to, depth) ==
    IF depth > RecursionLimit THEN Raised("recursion", <<>>)
    ELSE LET r == fetch_from_superset_api(behaviour, date_from, date_to)
             call == <<<<date_from, date_to>>>>
         IN  IF r.raised = "none"
             THEN [columns |-> r.columns, data |-> r.data, raised |-> "none",
                   calls |-> call]
             ELSE IF r.raised = "timeout"
             THEN LET c == fetch_query2_in_smaller_chunks(
                               behaviour, date_from, date_to, depth + 1)
                  IN  [c EXCEPT !.calls = call \o c.calls]
             ELSE Raised(r.raised, call)

---------------------------------------------------------------------------
(* The fetch / merge orchestration *)

filter_cache_data_by_date_range_open_end(columns, data, date_from, date_to) ==
    LET date_key_index == IndexOf(columns, "date_key")
    IN  IF date_key_index = 0 \/ \E i \in 1..Len(data) : Len(data[i]) < date_key_index
        THEN data
        ELSE SelectSeq(data, LAMBDA row : StrGE(row[date_key_index], date_from))

\* filter_cache_data_by_date_range: a missing date_key column (ValueError) or a
\* row too short for it (IndexError) returns the data unfiltered
filter_cache_data_by_date_range(columns, data, date_from, date_to) ==
    LET date_key_index == IndexOf(columns, "date_key")
    IN  IF date_key_index = 0 \/ \E i \in 1..Len(data) : Len(data[i]) < date_key_index
        THEN data
        ELSE SelectSeq(data, LAMBDA row :
                 StrGE(row[date_key_index], date_from) /\ StrLE(row[date_key_index], date_to))

\* One planned range of the loops at lines 302-360 and 424-448: result of the
\* provider call of the range; an exception is answered with mock data.
fetch_range(query_type, behaviour, range) ==
    LET a == fetch_from_superset_api(behaviour, range[1], range[2])
        r == IF query_type = "query1"
             THEN [columns |-> a.columns, data |-> a.data, raised |-> a.raised,
                   calls |-> <<range>>]
             ELSE fetch_query2_with_timeout_fallback(behaviour, range[1], range[2], 1)
    IN  IF r.raised = "none" THEN r
        ELSE [columns |-> ColsMock,
              data |-> generate_mock_data(range[1], range[2], query_type),
              raised |-> "none", calls |-> r.calls]

RECURSIVE fetch_ranges_stop_at_failure(_, _, _, _, _, _, _)
fetch_ranges_stop_at_failure(query_type, behaviour, ranges, i, columns, all_new_data, calls) ==
    IF i > Len(ranges)
    THEN [columns |-> columns, data |-> all_new_data, calls |-> calls]
    ELSE LET r == fetch_range(query_type, behaviour, ranges[i])
         IN  IF r.data # <<>>
             THEN fetch_ranges_stop_at_failure(query_type, behaviour, ranges, i + 1,
                               IF columns = <<>> THEN r.columns ELSE columns,
                               all_new_data \o r.data, calls \o r.calls)
             ELSE [columns |-> columns, data |-> all_new_data,
                   calls |-> calls \o r.calls]

\* the loop over the planned ranges, from range i on: columns is the column
\* list of the first range that brought rows (<<>> stands for None)
RECURSIVE fetch_ranges(_, _, _, _, _, _, _)
fetch_ranges(query_type, behaviour, ranges, i, columns, all_new_data, calls) ==
    IF i > Len(ranges)
    THEN [columns |-> columns, data |-> all_new_data, calls |-> calls]
    ELSE LET r == fetch_range(query_type, behaviour, ranges[i])
         IN  IF r.data # <<>>
             THEN fetch_ranges(query_type, behaviour, ranges, i + 1,
                               IF columns = <<>> THEN r.columns ELSE columns,
                               all_new_data \o r.data, calls \o r.calls)
             ELSE fetch_ranges(query_type, behaviour, ranges, i + 1,
                               columns, all_new_data, calls \o r.calls)

\* lines 362-372 and 450-452: cache new data if any was fetched; fetched is the
\* result of the loop over the planned ranges, stored the document afterwards
cache_new_data(cache_object, fetched, now) ==
    IF fetched.data # <<>> /\ fetched.columns # <<>>
    THEN cache_set_unified(cache_object, fetched.columns, fetched.data, now)
    ELSE [ok |-> FALSE, stored |-> cache_object]

\* the return value of fetch_from_superset (query1) and
\* fetch_from_superset_query2_with_fallback (query2): to is the normalized
\* to_date, final the document of the entity after the merge
final_result(cache_object, missing_ranges, fetched, final, date_from, to) ==
    IF date_from > to
    THEN [columns |-> <<>>, rows |-> <<>>]
    ELSE IF missing_ranges = <<>> /\ cache_object.exists
    THEN [columns |-> cache_object.columns,
          rows |-> filter_cache_data_by_date_range(
                       cache_object.columns, cache_object.data, date_from, to)]
    ELSE IF final.exists
    THEN [columns |-> final.columns,
          rows |-> filter_cache_data_by_date_range(
                       final.columns, final.data, date_from, to)]
    ELSE [columns |-> fetched.columns, rows |-> fetched.data]

---------------------------------------------------------------------------
(* The alert engine: utils/analysis_utils.py, generate_comprehensive_alerts. *)
(* An impressions cell is a natural number.  A percentage is kept exact:     *)
(* (part / base) * 100 is the fraction part * 100 over base, change_percent  *)
(* is the record [num, den] of that fraction, and "percent >= threshold" is  *)
(* compared by cross-multiplication.  Of an alert the fields tag_name,       *)
(* metric, message and the two week-range texts are left out.                *)

\* the layout of a document with impressions
ColsAlert == <<"tag_name", "tag_id", "date_key", "total_impressions">>

\* defaults of generate_comprehensive_alerts
DayThreshold == 35

WeekThreshold == 20

WeekIncreaseThreshold == 25

\* the minimum traffic of the compared day or week
TrafficFloor == 2500

\* severity cut-offs of a daily drop, a weekly drop and a weekly increase
DayHigh == 50

DayMedium == 35

WeekDropHigh == 40

WeekDropMedium == 25

WeekIncreaseHigh == 50

WeekIncreaseMedium == 35

\* (part / base) * 100 >= threshold_num / threshold_den, for base > 0
percent_at_least(part, base, threshold_num, threshold_den) ==
    part * 100 * threshold_den >= threshold_num * base

severity_two_levels(part, base, high, medium) ==
    IF percent_at_least(part, base, high, 1) THEN "high" ELSE "medium"

\* 'high' if percent >= high else 'medium' if percent >= medium else 'low'
severity(part, base, high, medium) ==
    IF percent_at_least(part, base, high, 1) THEN "high"
    ELSE IF percent_at_least(part, base, medium, 1) THEN "medium"
    ELSE "low"

filtered_data_with_today(daily_data, date_key_index, now) == daily_data

\* line 181: the rows dated before today, as a new list
filtered_data(daily_data, date_key_index, now) ==
    SelectSeq(daily_data, LAMBDA row : row[date_key_index] < now)

\* lines 187-192: the keys of tag_groups in insertion order
tag_ids_in_order(rows, tag_id_index) ==
    LET first == SelectSeq([i \in 1..Len(rows) |-> i],
                           LAMBDA i : \A j \in 1..(i - 1) :
                                          rows[j][tag_id_index] # rows[i][tag_id_index])
    IN  [k \in 1..Len(first) |-> rows[first[k]][tag_id_index]]

\* lines 187-192: the list of one tag in tag_groups
tag_group(rows, tag_id_index, tag_id) ==
    SelectSeq(rows, LAMBDA row : row[tag_id_index] = tag_id)

\* line 200: list.sort(key = date, reverse = True), a stable sort
sort_by_date_reverse(tag_data, date_key_index) ==
    LET n == Len(tag_data)
        rank(i) ==
            1 + Cardinality({j \in 1..n :
                    \/ tag_data[j][date_key_index] > tag_data[i][date_key_index]
                    \/ /\ tag_data[j][date_key_index] = tag_data[i][date_key_index]
                       /\ j < i})
    IN  [k \in 1..n |-> tag_data[CHOOSE i \in 1..n : rank(i) = k]]

day_over_day_any_traffic(tag_data, di, ti, ii, day_threshold) ==
    LET current_impressions == tag_data[1][ii]
        previous_day_impressions == tag_data[2][ii]
        days_diff == tag_data[1][di] - tag_data[2][di]
    IN  IF /\ days_diff = 1
           /\ previous_day_impressions > 0
           /\ current_impressions < previous_day_impressions
           /\ percent_at_least(previous_day_impressions - current_impressions,
                               previous_day_impressions, day_threshold, 1)
        THEN <<[tag_id |-> tag_data[1][ti],
                date |-> tag_data[1][di],
                current_value |-> current_impressions,
                previous_value |-> previous_day_impressions,
                change_percent |->
                    [num |-> 0 - (previous_day_impressions - current_impressions) * 100,
                     den |-> previous_day_impressions],
                severity |-> severity(previous_day_impressions - current_impressions,
                                      previous_day_impressions, DayHigh, DayMedium),
                alert_type |-> "day_over_day",
                comparison_date |-> tag_data[2][di]]>>
        ELSE <<>>

day_over_day_any_gap(tag_data, di, ti, ii, day_threshold) ==
    LET current_impressions == tag_data[1][ii]
        previous_day_impressions == tag_data[2][ii]
        days_diff == tag_data[1][di] - tag_data[2][di]
    IN  IF /\ days_diff >= 1
           /\ previous_day_impressions > TrafficFloor
           /\ current_impressions < previous_day_impressions
           /\ percent_at_least(previous_day_impressions - current_impressions,
                               previous_day_impressions, day_threshold, 1)
        THEN <<[tag_id |-> tag_data[1][ti],
                date |-> tag_data[1][di],
                current_value |-> current_impressions,
                previous_value |-> previous_day_impressions,
                change_percent |->
                    [num |-> 0 - (previous_day_impressions - current_impressions) * 100,
                     den |-> previous_day_impressions],
                severity |-> severity(previous_day_impressions - current_impressions,
                                      previous_day_impressions, DayHigh, DayMedium),
                alert_type |-> "day_over_day",
                comparison_date |-> tag_data[2][di]]>>
        ELSE <<>>

\* lines 214-242: 1. the day-over-day comparison of the two most recent rows
\* of a tag (tag_data sorted, at least two rows); no or one alert
day_over_day(tag_data, di, ti, ii, day_threshold) ==
    LET current_impressions == tag_data[1][ii]
        previous_day_impressions == tag_data[2][ii]
        days_diff == tag_data[1][di] - tag_data[2][di]
    IN  IF /\ days_diff = 1
           /\ previous_day_impressions > TrafficFloor
           /\ current_impressions < previous_day_impressions
           /\ percent_at_least(previous_day_impressions - current_impressions,
                               previous_day_impressions, day_threshold, 1)
        THEN <<[tag_id |-> tag_data[1][ti],
                date |-> tag_data[1][di],
                current_value |-> current_impressions,
                previous_value |-> previous_day_impressions,
                change_percent |->
                    [num |-> 0 - (previous_day_impressions - current_impressions) * 100,
                     den |-> previous_day_impressions],
                severity |-> severity(previous_day_impressions - current_impressions,
                                      previous_day_impressions, DayHigh, DayMedium),
                alert_type |-> "day_over_day",
                comparison_date |-> tag_data[2][di]]>>
        ELSE <<>>

\* sum(row[impressions_index] or 0 for row in rows)
RECURSIVE sum_impressions(_, _)
sum_impressions(rows, ii) ==
    IF rows = <<>> THEN 0
    ELSE Head(rows)[ii] + sum_impressions(Tail(rows), ii)

week_total_open_end(tag_data, di, ii, week_start, week_end) ==
    sum_impressions(SelectSeq(tag_data,
        LAMBDA row : week_start <= row[di] /\ row[di] < week_end), ii)

\* lines 249-257: the total of the rows of a tag dated in
\* [week_start, week_end]
week_total(tag_data, di, ii, week_start, week_end) ==
    sum_impressions(SelectSeq(tag_data,
        LAMBDA row : week_start <= row[di] /\ row[di] <= week_end), ii)

week_over_week_unsigned_increase(tag_data, di, ti, ii, week_threshold, week_increase_threshold) ==
    LET current_date == tag_data[1][di]
        current_week_total ==
            week_total(tag_data, di, ii, current_date - 6, current_date)
        previous_week_total ==
            week_total(tag_data, di, ii, current_date - 13, current_date - 7)
        drop == previous_week_total - current_week_total
        change == IF drop < 0 THEN 0 - drop ELSE drop
        alert(alert_type, percent, high, medium) ==
            [tag_id |-> tag_data[1][ti],
             date |-> current_date,
             current_value |-> current_week_total,
             previous_value |-> previous_week_total,
             change_percent |-> [num |-> percent * 100, den |-> previous_week_total],
             severity |-> severity(change, previous_week_total, high, medium),
             alert_type |-> alert_type,
             comparison_date |-> <<current_date - 13, current_date - 7>>]
    IN  IF previous_week_total > TrafficFloor
        THEN (IF /\ current_week_total < previous_week_total
                 /\ percent_at_least(drop, previous_week_total, week_threshold, 1)
              THEN <<alert("week_over_week", 0 - drop, WeekDropHigh, WeekDropMedium)>>
              ELSE <<>>)
             \o (IF percent_at_least(change, previous_week_total,
                                     week_increase_threshold, 1)
                 THEN <<alert("week_over_week_increase", change,
                              WeekIncreaseHigh, WeekIncreaseMedium)>>
                 ELSE <<>>)
        ELSE <<>>

\* lines 244-302: 2. the week-over-week comparison of the 7 days ending at
\* the current date with the 7 days before them; no or one alert
week_over_week(tag_data, di, ti, ii, week_threshold, week_increase_threshold) ==
    LET current_date == tag_data[1][di]
        current_week_total ==
            week_total(tag_data, di, ii, current_date - 6, current_date)
        previous_week_total ==
            week_total(tag_data, di, ii, current_date - 13, current_date - 7)
        drop == previous_week_total - current_week_total
        increase == current_week_total - previous_week_total
        alert(alert_type, change, high, medium) ==
            [tag_id |-> tag_data[1][ti],
             date |-> current_date,
             current_value |-> current_week_total,
             previous_value |-> previous_week_total,
             change_percent |-> [num |-> change * 100, den |-> previous_week_total],
             severity |-> severity(IF change < 0 THEN 0 - change ELSE change,
                                   previous_week_total, high, medium),
             alert_type |-> alert_type,
             comparison_date |-> <<current_date - 13, current_date - 7>>]
    IN  IF previous_week_total > TrafficFloor
        THEN IF current_week_total < previous_week_total
             THEN IF percent_at_least(drop, previous_week_total, week_threshold, 1)
                  THEN <<alert("week_over_week", 0 - drop,
                               WeekDropHigh, WeekDropMedium)>>
                  ELSE <<>>
             ELSE IF /\ current_week_total > previous_week_total
                     /\ percent_at_least(increase, previous_week_total,
                                         week_increase_threshold, 1)
                  THEN <<alert("week_over_week_increase", increase,
                               WeekIncreaseHigh, WeekIncreaseMedium)>>
                  ELSE <<>>
        ELSE <<>>

gap_tolerant_first_row_only(tag_data, di, ti, ii, day_threshold) ==
    LET current_impressions == tag_data[1][ii]
        previous_day_impressions == tag_data[2][ii]
    IN  IF /\ tag_data[1][di] - tag_data[2][di] \in 1..3
           /\ previous_day_impressions > TrafficFloor
           /\ current_impressions < previous_day_impressions
           /\ percent_at_least(previous_day_impressions - current_impressions,
                               previous_day_impressions, day_threshold * 8, 10)
        THEN <<[tag_id |-> tag_data[1][ti],
                date |-> tag_data[1][di],
                current_value |-> current_impressions,
                previous_value |-> previous_day_impressions,
                change_percent |->
                    [num |-> 0 - (previous_day_impressions - current_impressions) * 100,
                     den |-> previous_day_impressions],
                severity |-> severity(previous_day_impressions - current_impressions,
                                      previous_day_impressions, DayHigh, DayMedium),
                alert_type |-> "gap_tolerant",
                comparison_date |-> tag_data[2][di],
                days_gap |-> tag_data[1][di] - tag_data[2][di]]>>
        ELSE <<>>

gap_tolerant_no_break(tag_data, di, ti, ii, day_threshold) ==
    LET current_impressions == tag_data[1][ii]
        alerting(i) ==
            /\ tag_data[1][di] - tag_data[i][di] \in 1..3
            /\ tag_data[i][ii] > TrafficFloor
            /\ current_impressions < tag_data[i][ii]
            /\ percent_at_least(tag_data[i][ii] - current_impressions,
                                tag_data[i][ii], day_threshold * 8, 10)
        order == SelectSeq([i \in 1..(Min(4, Len(tag_data)) - 1) |-> i + 1], alerting)
    IN  [k \in 1..Len(order) |->
            [tag_id |-> tag_data[1][ti],
             date |-> tag_data[1][di],
             current_value |-> current_impressions,
             previous_value |-> tag_data[order[k]][ii],
             change_percent |->
                 [num |-> 0 - (tag_data[order[k]][ii] - current_impressions) * 100,
                  den |-> tag_data[order[k]][ii]],
             severity |-> severity(tag_data[order[k]][ii] - current_impressions,
                                   tag_data[order[k]][ii], DayHigh, DayMedium),
             alert_type |-> "gap_tolerant",
             comparison_date |-> tag_data[order[k]][di],
             days_gap |-> tag_data[1][di] - tag_data[order[k]][di]]]

gap_tolerant_from_two_days(tag_data, di, ti, ii, day_threshold) ==
    LET current_impressions == tag_data[1][ii]
        valid(i) == /\ tag_data[1][di] - tag_data[i][di] \in 2..3
                    /\ tag_data[i][ii] > TrafficFloor
        candidates == {i \in 2..Min(4, Len(tag_data)) : valid(i)}
    IN  IF candidates = {} THEN <<>>
        ELSE LET i == CHOOSE c \in candidates : \A o \in candidates : c <= o
                 previous_day_impressions == tag_data[i][ii]
             IN  IF /\ current_impressions < previous_day_impressions
                    /\ percent_at_least(previous_day_impressions - current_impressions,
                                        previous_day_impressions, day_threshold * 8, 10)
                 THEN <<[tag_id |-> tag_data[1][ti],
                         date |-> tag_data[1][di],
                         current_value |-> current_impressions,
                         previous_value |-> previous_day_impressions,
                         change_percent |->
                             [num |-> 0 - (previous_day_impressions
                                           - current_impressions) * 100,
                              den |-> previous_day_impressions],
                         severity |-> severity(previous_day_impressions
                                               - current_impressions,
                                               previous_day_impressions,
                                               DayHigh, DayMedium),
                         alert_type |-> "gap_tolerant",
                         comparison_date |-> tag_data[i][di],
                         days_gap |-> tag_data[1][di] - tag_data[i][di]]>>
                 ELSE <<>>

\* lines 304-337: 3. the gap-tolerant comparison with the nearest of the
\* three preceding rows that is one to three days back and above the floor;
\* the threshold is day_threshold * 0.8
gap_tolerant(tag_data, di, ti, ii, day_threshold) ==
    LET current_impressions == tag_data[1][ii]
        valid(i) == /\ tag_data[1][di] - tag_data[i][di] \in 1..3
                    /\ tag_data[i][ii] > TrafficFloor
        candidates == {i \in 2..Min(4, Len(tag_data)) : valid(i)}
    IN  IF candidates = {} THEN <<>>
        ELSE LET i == CHOOSE c \in candidates : \A o \in candidates : c <= o
                 previous_day_impressions == tag_data[i][ii]
             IN  IF /\ current_impressions < previous_day_impressions
                    /\ percent_at_least(previous_day_impressions - current_impressions,
                                        previous_day_impressions, day_threshold * 8, 10)
                 THEN <<[tag_id |-> tag_data[1][ti],
                         date |-> tag_data[1][di],
                         current_value |-> current_impressions,
                         previous_value |-> previous_day_impressions,
                         change_percent |->
                             [num |-> 0 - (previous_day_impressions
                                           - current_impressions) * 100,
                              den |-> previous_day_impressions],
                         severity |-> severity(previous_day_impressions
                                               - current_impressions,
                                               previous_day_impressions,
                                               DayHigh, DayMedium),
                         alert_type |-> "gap_tolerant",
                         comparison_date |-> tag_data[i][di],
                         days_gap |-> tag_data[1][di] - tag_data[i][di]]>>
                 ELSE <<>>

\* lines 196-337: the alerts of one tag, from its list in tag_groups
tag_alerts(tag_data, di, ti, ii, day_threshold, week_threshold, week_increase_threshold) ==
    IF Len(tag_data) < 2 \/ ii = 0 THEN <<>>
    ELSE LET sorted_data == sort_by_date_reverse(tag_data, di)
         IN  day_over_day(sorted_data, di, ti, ii, day_threshold)
             \o week_over_week(sorted_data, di, ti, ii, week_threshold,
                               week_increase_threshold)
             \o gap_tolerant(sorted_data, di, ti, ii, day_threshold)

\* lines 195-337: the loop over tag_groups
RECURSIVE alerts_of_tags(_, _, _, _, _, _, _, _)
alerts_of_tags(tag_ids, rows, di, ti, ii, day_threshold, week_threshold, week_increase_threshold) ==
    IF tag_ids = <<>> THEN <<>>
    ELSE tag_alerts(tag_group(rows, ti, Head(tag_ids)), di, ti, ii,
                    day_threshold, week_threshold, week_increase_threshold)
         \o alerts_of_tags(Tail(tag_ids), rows, di, ti, ii, day_threshold,
                           week_threshold, week_increase_threshold)

generate_comprehensive_alerts_sorting_argument(daily_data, columns, now, day_threshold, week_threshold, week_increase_threshold) ==
    LET di == IndexOf(columns, "date_key")
        ti == IndexOf(columns, "tag_id")
        ii == IndexOf(columns, "total_impressions")
        rows == IF di = 0 \/ ti = 0 THEN <<>> ELSE filtered_data(daily_data, di, now)
    IN  [alerts |->
            IF di = 0 \/ ti = 0 \/ Len(rows) < 2 THEN <<>>
            ELSE alerts_of_tags(tag_ids_in_order(rows, ti), rows, di, ti, ii,
                                day_threshold, week_threshold,
                                week_increase_threshold),
         daily_data |-> IF di = 0 THEN daily_data
                        ELSE sort_by_date_reverse(daily_data, di),
         columns |-> columns]

\* generate_comprehensive_alerts (lines 154-339).  alerts: the list returned;
\* daily_data, columns: the two lists passed, as the call leaves them.  The
\* call filters into a new list (line 181), groups into new lists (187-192)
\* and sorts those (200); no statement assigns to the lists passed or to a row.
generate_comprehensive_alerts(daily_data, columns, now, day_threshold, week_threshold, week_increase_threshold) ==
    LET di == IndexOf(columns, "date_key")
        ti == IndexOf(columns, "tag_id")
        ii == IndexOf(columns, "total_impressions")
        rows == IF di = 0 \/ ti = 0 THEN <<>> ELSE filtered_data(daily_data, di, now)
    IN  [alerts |->
            IF di = 0 \/ ti = 0 \/ Len(rows) < 2 THEN <<>>
            ELSE alerts_of_tags(tag_ids_in_order(rows, ti), rows, di, ti, ii,
                                day_threshold, week_threshold,
                                week_increase_threshold),
         daily_data |-> daily_data,
         columns |-> columns]

\* a date_key cell whose text is below every date and that
\* datetime.strptime(..., '%Y-%m-%d') rejects, such as '' or '0000-00-00'
BadDate == 0

\* datetime.strptime(date_key, '%Y-%m-%d') raises ValueError
strptime_raises(date_key) == date_key = BadDate

\* lines 214-315: the analysis of one tag (tag_data sorted) raises.  Line 220
\* parses the date of the first row, line 221 that of the second; the loop of
\* lines 307-337 parses the dates of the second to fourth row in turn and
\* stops behind the first row that is one to three days back and above the
\* floor.  Nothing in generate_comprehensive_alerts catches the exception.
tag_raises(tag_data, di, ii) ==
    /\ Len(tag_data) >= 2
    /\ ii # 0
    /\ \/ strptime_raises(tag_data[1][di])
       \/ \E i \in 2..Min(4, Len(tag_data)) :
              /\ strptime_raises(tag_data[i][di])
              /\ \A j \in 2..(i - 1) :
                     ~(/\ tag_data[1][di] - tag_data[j][di] \in 1..3
                       /\ tag_data[j][ii] > TrafficFloor)

\* generate_comprehensive_alerts raises instead of returning: the analysis
\* of one of the tags of tag_groups raises
evaluation_raises(daily_data, columns, now) ==
    LET di == IndexOf(columns, "date_key")
        ti == IndexOf(columns, "tag_id")
        ii == IndexOf(columns, "total_impressions")
        rows == IF di = 0 \/ ti = 0 THEN <<>> ELSE filtered_data(daily_data, di, now)
    IN  /\ Len(rows) >= 2
        /\ \E tag_id \in {rows[i][ti] : i \in 1..Len(rows)} :
               tag_raises(sort_by_date_reverse(tag_group(rows, ti, tag_id), di), di, ii)

\* api.py lines 29-38: the alerts one cache entry adds to all_alerts.  The
\* call passes no thresholds; an exception of the call is caught per entry
\* and the entry adds nothing.
alerts_of_entry(cache_object, now) ==
    IF evaluation_raises(cache_object.data, cache_object.columns, now) THEN <<>>
    ELSE generate_comprehensive_alerts(cache_object.data, cache_object.columns, now,
             DayThreshold, WeekThreshold, WeekIncreaseThreshold).alerts

---------------------------------------------------------------------------
(* Alert rules: utils/alert_rules.py.  A dict is a function on its keys.    *)
(* The text of a tag id is the sequence of its decimal digits.  A time of   *)
(* day 'HH:MM' is the number of its minutes since midnight, which orders as *)
(* the zero-padded strings do.                                              *)

EmptyDict == [k \in {} |-> 0]

\* d.get(k, default)
dict_get(d, k, default) == IF k \in DOMAIN d THEN d[k] ELSE default

\* d[k] = v
dict_set(d, k, v) == [x \in DOMAIN d \cup {k} |-> IF x = k THEN v ELSE d[x]]

\* del d[k]
dict_del(d, k) == [x \in DOMAIN d \ {k} |-> d[x]]

\* d.update(u)
dict_update(d, u) ==
    [x \in DOMAIN d \cup DOMAIN u |-> IF x \in DOMAIN u THEN u[x] ELSE d[x]]

\* lines 15-34
default_rules ==
    [global_thresholds |->
         [k \in {"day_over_day_drop", "week_over_week_drop",
                 "week_over_week_increase", "gap_tolerant_drop",
                 "minimum_impressions"} |->
             CASE k = "day_over_day_drop" -> 35
               [] k = "week_over_week_drop" -> 20
               [] k = "week_over_week_increase" -> 25
               [] k = "gap_tolerant_drop" -> 28
               [] OTHER -> 2500],
     tag_specific_rules |-> EmptyDict,
     time_based_rules |-> [business_hours_only |-> FALSE, weekend_alerts |-> TRUE,
                           holiday_exceptions |-> <<>>],
     frequency_limits |-> [max_alerts_per_tag_per_day |-> 3, cooldown_hours |-> 6],
     custom_conditions |-> <<>>]

\* the content of a file that json.load cannot read
Truncated == [truncated |-> TRUE]

\* save_rules (lines 50-58): the file after the call and the value returned.
\* outcome: "ok"; "open_failed", open() raises and the file is as it was;
\* "write_failed", json.dump raises after open() has truncated the file
save_rules(rule_set, file, outcome) ==
    CASE outcome = "ok" -> [file |-> rule_set, ok |-> TRUE]
      [] outcome = "open_failed" -> [file |-> file, ok |-> FALSE]
      [] OTHER -> [file |-> Truncated, ok |-> FALSE]

get_threshold_for_tag_global_only(rule_set, tag_id, alert_type) ==
    LET global_thresholds == rule_set.global_thresholds
    IN  CASE alert_type = "day_over_day" ->
                 dict_get(global_thresholds, "day_over_day_drop", 35)
          [] alert_type = "week_over_week" ->
                 dict_get(global_thresholds, "week_over_week_drop", 20)
          [] alert_type = "week_over_week_increase" ->
                 dict_get(global_thresholds, "week_over_week_increase", 25)
          [] alert_type = "gap_tolerant" ->
                 dict_get(global_thresholds, "gap_tolerant_drop", 28)
          [] OTHER -> 35

\* get_threshold_for_tag (lines 60-77)
get_threshold_for_tag(rule_set, tag_id, alert_type) ==
    LET tag_rules == rule_set.tag_specific_rules
        global_thresholds == rule_set.global_thresholds
    IN  IF /\ tag_id \in DOMAIN tag_rules
           /\ alert_type \in DOMAIN dict_get(tag_rules[tag_id], "thresholds", EmptyDict)
        THEN tag_rules[tag_id]["thresholds"][alert_type]
        ELSE CASE alert_type = "day_over_day" ->
                      dict_get(global_thresholds, "day_over_day_drop", 35)
               [] alert_type = "week_over_week" ->
                      dict_get(global_thresholds, "week_over_week_drop", 20)
               [] alert_type = "week_over_week_increase" ->
                      dict_get(global_thresholds, "week_over_week_increase", 25)
               [] alert_type = "gap_tolerant" ->
                      dict_get(global_thresholds, "gap_tolerant_drop", 28)
               [] OTHER -> 35

\* str(n) for a tag id: its decimal digits
RECURSIVE digits(_)
digits(n) == IF n < 10 THEN <<n>> ELSE digits(n \div 10) \o <<n % 10>>

\* pattern in text
is_substring(pattern, text) ==
    \E i \in 0..(Len(text) - Len(pattern)) :
        SubSeq(text, i + 1, i + Len(pattern)) = pattern

\* _check_frequency_limit (lines 95-99)
check_frequency_limit(rule_set, alert, tag_id) == TRUE

\* _check_time_rules (lines 101-117); weekday: 0 Monday .. 6 Sunday
check_time_rules(rule_set, weekday, minute) ==
    LET hour == minute \div 60
        time_based_rules == rule_set.time_based_rules
    IN  IF /\ dict_get(time_based_rules, "business_hours_only", FALSE)
           /\ (weekday >= 5 \/ hour < 9 \/ hour > 17)
        THEN FALSE
        ELSE IF ~dict_get(time_based_rules, "weekend_alerts", TRUE) /\ weekday >= 5
        THEN FALSE
        ELSE TRUE

\* severity_order.get(severity, 1)
severity_order(name) ==
    CASE name = "high" -> 3 [] name = "medium" -> 2 [] OTHER -> 1

\* _evaluate_condition (lines 129-152)
evaluate_condition(condition, alert, tag_id, minute) ==
    CASE condition.type = "tag_pattern" ->
             is_substring(dict_get(condition, "pattern", <<>>), digits(tag_id))
      [] condition.type = "severity_minimum" ->
             severity_order(dict_get(alert, "severity", "low"))
                 >= severity_order(dict_get(condition, "minimum", "low"))
      [] condition.type = "change_threshold" ->
             LET change_percent == dict_get(alert, "change_percent", [num |-> 0, den |-> 1])
                 magnitude == IF change_percent.num < 0 THEN 0 - change_percent.num
                              ELSE change_percent.num
             IN  magnitude >= dict_get(condition, "threshold", 0) * change_percent.den
      [] condition.type = "time_range" ->
             /\ dict_get(condition, "start_time", 0) <= minute
             /\ minute <= dict_get(condition, "end_time", 23 * 60 + 59)
      [] OTHER -> TRUE

check_custom_conditions_first_only(custom_conditions, alert, tag_id, minute) ==
    custom_conditions = <<>> \/ evaluate_condition(Head(custom_conditions), alert, tag_id, minute)

\* _check_custom_conditions (lines 119-127): the loop over the conditions
RECURSIVE check_custom_conditions(_, _, _, _)
check_custom_conditions(custom_conditions, alert, tag_id, minute) ==
    IF custom_conditions = <<>> THEN TRUE
    ELSE IF ~evaluate_condition(Head(custom_conditions), alert, tag_id, minute)
    THEN FALSE
    ELSE check_custom_conditions(Tail(custom_conditions), alert, tag_id, minute)

\* should_send_alert (lines 79-93), at the given weekday and time of day
should_send_alert(rule_set, alert, tag_id, weekday, minute) ==
    IF ~check_frequency_limit(rule_set, alert, tag_id) THEN FALSE
    ELSE IF ~check_time_rules(rule_set, weekday, minute) THEN FALSE
    ELSE IF ~check_custom_conditions(rule_set.custom_conditions, alert, tag_id, minute)
    THEN FALSE
    ELSE TRUE

\* add_tag_rule (lines 154-163): the rule set in memory before save_rules;
\* an empty thresholds or conditions argument is falsy
add_tag_rule(rule_set, tag_id, thresholds, conditions) ==
    LET tag_rules == rule_set.tag_specific_rules
        created == IF tag_id \in DOMAIN tag_rules THEN tag_rules[tag_id] ELSE EmptyDict
        with_thresholds == IF thresholds # EmptyDict
                           THEN dict_set(created, "thresholds", thresholds)
                           ELSE created
        with_conditions == IF conditions # <<>>
                           THEN dict_set(with_thresholds, "conditions", conditions)
                           ELSE with_thresholds
    IN  [rule_set EXCEPT !.tag_specific_rules = dict_set(tag_rules, tag_id, with_conditions)]

\* remove_tag_rule (lines 167-170): the rule set in memory before save_rules
remove_tag_rule(rule_set, tag_id) ==
    [rule_set EXCEPT !.tag_specific_rules = dict_del(rule_set.tag_specific_rules, tag_id)]

\* add_custom_condition (line 176)
add_custom_condition(rule_set, condition) ==
    [rule_set EXCEPT !.custom_conditions = Append(rule_set.custom_conditions, condition)]

\* update_global_thresholds (line 181)
update_global_thresholds(rule_set, thresholds) ==
    [rule_set EXCEPT !.global_thresholds = dict_update(rule_set.global_thresholds, thresholds)]

---------------------------------------------------------------------------
(* State.  store: the query_cache table, one document per cache key.       *)
(* today: the processing date.  last: the call that has just run, with its *)
(* arguments and results ("none" between calls).  threads: the calls of    *)
(* cache_set_unified in progress in concurrent threads, with their locals. *)
(* rules: the rule set of the AlertRules instance in memory.  rules_file:   *)
(* the content of data/alert_rules.json.                                    *)

NoBehaviour == [data |-> "none", over |-> 0, kind |-> "error"]

Idle ==
    [op |-> "none", query_type |-> "", columns |-> <<>>, new_data |-> <<>>,
     ok |-> FALSE, before |-> NoDoc, repeat |-> FALSE, now |-> 0,
     date_from |-> 0, date_to |-> 0, plan |-> <<>>, calls |-> <<>>,
     behaviour |-> NoBehaviour, wrote |-> FALSE,
     ret_columns |-> <<>>, ret_rows |-> <<>>,
     daily_data |-> <<>>, thresholds |-> <<>>, alerts |-> <<>>,
     tag_id |-> 0, alert_type |-> "", alert |-> <<>>, weekday |-> 0, minute |-> 0,
     result |-> 0,
     after |-> [columns |-> <<>>, daily_data |-> <<>>]]

QueryTypes == {"query1", "query2"}

\* no request is in progress in a thread of its own
NoThreads == <<>>

KeyOf(query_type) == generate_cache_key(query_type, "e1")

---------------------------------------------------------------------------
(* Spec: calls of cache_set_unified with arbitrary small batches *)

TagIds == {101, 102}

SqlRows == {<<ProviderName, t, d>> : t \in TagIds, d \in 1..MaxDay}

\* rows of a width other than 3
ShortRow == <<ProviderName, 101>>

LongRow == <<ProviderName, 101, 1, 1>>

GoodRow == <<ProviderName, 101, 1>>

AllRows == SqlRows \cup {ShortRow, LongRow}

\* the batches offered for query1: empty, one row, two rows of the SQL
\* layout, and five equal well-formed rows followed by a sixth row
Batches ==
    {<<>>}
    \cup {<<r>> : r \in AllRows}
    \cup {<<r1, r2>> : r1 \in SqlRows, r2 \in SqlRows}
    \cup {<<GoodRow, GoodRow, GoodRow, GoodRow, GoodRow, r>> :
             r \in {ShortRow, LongRow, <<ProviderName, 102, 1>>}}

\* the calls offered: any batch under any column list for query1, and two
\* batches of the SQL layout for query2
MergeCalls ==
    {<<"query1", columns, new_data>> :
        columns \in {ColsSql, ColsMock, ColsNoTag, ColsEmpty}, new_data \in Batches}
    \cup {<<"query2", ColsSql, new_data>> : new_data \in {<<>>, <<GoodRow>>}}

Init ==
    /\ store = [k \in Keys |-> NoDoc]
    /\ today = 2
    /\ last = Idle
    /\ threads = NoThreads
    /\ rules = default_rules
    /\ rules_file = default_rules

\* cache_set_unified(query_type, "e1", columns, new_data) runs
DoMerge(query_type, columns, new_data, repeat) ==
    LET before == cache_get_unified(store, query_type, "e1")
        r == cache_set_unified(before, columns, new_data, today)
    IN  /\ Len(r.stored.data) <= MaxRows
        /\ store' = [store EXCEPT ![KeyOf(query_type)] = r.stored]
        /\ last' = [Idle EXCEPT !.op = "merge", !.query_type = query_type,
                                !.columns = columns, !.new_data = new_data,
                                !.ok = r.ok, !.before = before,
                                !.repeat = repeat, !.now = today]
        /\ UNCHANGED <<today, threads, rules, rules_file>>

Merge ==
    /\ last.op = "none"
    /\ \E c \in MergeCalls : DoMerge(c[1], c[2], c[3], FALSE)

\* the caller merges the same batch once more
MergeAgain ==
    /\ last.op = "merge"
    /\ ~last.repeat
    /\ DoMerge(last.query_type, last.columns, last.new_data, TRUE)

\* the call returns
Return ==
    /\ last.op # "none"
    /\ last' = Idle
    /\ UNCHANGED <<store, today, threads, rules, rules_file>>

\* midnight passes
Tick ==
    /\ last.op = "none"
    /\ today < MaxDay
    /\ today' = today + 1
    /\ UNCHANGED <<store, last, threads, rules, rules_file>>

Next == Merge \/ MergeAgain \/ Return \/ Tick

Spec == Init /\ [][Next]_vars

---------------------------------------------------------------------------
(* SpecPlan: the planner and the orchestration on date ranges long enough  *)
(* for chunking.  The cache of one entity starts as a document the         *)
(* orchestration has written before: rows of the SQL layout for some days. *)

\* days that may already be cached
ProbeDays == {2, 5, 30}

\* the document with the provider's rows of the days in S, latest day first
RECURSIVE rows_of_days(_)
rows_of_days(S) ==
    IF S = {} THEN <<>>
    ELSE LET d == CHOOSE x \in S : \A y \in S : x >= y
         IN  rows_of_tags(ProviderTags, d, FALSE) \o rows_of_days(S \ {d})

PlanDocs ==
    {NoDoc} \cup {[exists |-> TRUE, columns |-> ColsSql, data |-> rows_of_days(S)] :
                     S \in SUBSET ProbeDays}

\* the requests: from_date near the start or at the end of the horizon, any to_date
PlanFroms == {1, 2, 4, PlanHorizon}

PlanTos == 1..(PlanHorizon + 1)

\* provider behaviours: what the upstream holds, and which queries fail how
Behaviours ==
    {[data |-> "all", over |-> 2 * PlanHorizon, kind |-> "error"],
     [data |-> "odd", over |-> 2 * PlanHorizon, kind |-> "error"],
     [data |-> "none", over |-> 2 * PlanHorizon, kind |-> "error"],
     [data |-> "all", over |-> 0, kind |-> "timeout"],
     [data |-> "all", over |-> SmallChunkStepDays + 1, kind |-> "timeout"],
     [data |-> "odd", over |-> SmallChunkStepDays + 1, kind |-> "error"],
     [data |-> "all", over |-> 0, kind |-> "error"]}

InitPlan ==
    /\ \E query_type \in QueryTypes, doc \in PlanDocs :
           store = [k \in Keys |-> IF k = KeyOf(query_type) THEN doc ELSE NoDoc]
    /\ today = PlanHorizon
    /\ last = Idle
    /\ threads = NoThreads
    /\ rules = default_rules
    /\ rules_file = default_rules

\* find_missing_dates(query_type, "e1", date_from, date_to) runs
Plan ==
    /\ last.op = "none"
    /\ \E query_type \in QueryTypes, date_from \in PlanFroms, date_to \in PlanTos :
           LET doc == cache_get_unified(store, query_type, "e1")
           IN  last' = [Idle EXCEPT !.op = "plan", !.query_type = query_type,
                                    !.date_from = date_from, !.date_to = date_to,
                                    !.before = doc, !.now = today,
                                    !.plan = find_missing_dates(doc, date_from,
                                                                date_to, today)]
    /\ UNCHANGED <<store, today, threads, rules, rules_file>>

\* fetch_from_superset / fetch_from_superset_query2_with_fallback runs against
\* a provider that behaves as behaviour says: the to_date is normalized, the
\* missing ranges are planned and fetched, the new rows are merged and the
\* result is read back from the document
Reconcile ==
    /\ last.op = "none"
    /\ \E query_type \in QueryTypes, date_from \in PlanFroms, date_to \in PlanTos,
          behaviour \in Behaviours :
       \E cache_object \in {cache_get_unified(store, query_type, "e1")},
          to \in {ensure_date_not_today(date_to, today)} :
       \E missing_ranges \in {IF date_from > to THEN <<>>
                              ELSE find_missing_dates(cache_object, date_from, to, today)} :
       \E fetched \in {fetch_ranges(query_type, behaviour, missing_ranges, 1,
                                    <<>>, <<>>, <<>>)} :
       \E merge \in {cache_new_data(cache_object, fetched, today)} :
       \E result \in {final_result(cache_object, missing_ranges, fetched,
                                   merge.stored, date_from, to)} :
           /\ store' = [store EXCEPT ![KeyOf(query_type)] = merge.stored]
           /\ last' = [Idle EXCEPT !.op = "reconcile", !.query_type = query_type,
                                   !.date_from = date_from, !.date_to = date_to,
                                   !.before = cache_object, !.now = today,
                                   !.behaviour = behaviour,
                                   !.plan = missing_ranges, !.calls = fetched.calls,
                                   !.wrote = fetched.data # <<>> /\ fetched.columns # <<>>,
                                   !.ret_columns = result.columns,
                                   !.ret_rows = result.rows]
    /\ UNCHANGED <<today, threads, rules, rules_file>>

\* the planner call returns; a run of SpecPlan ends with its reconcile call
ReturnPlan ==
    /\ last.op = "plan"
    /\ last' = Idle
    /\ UNCHANGED <<store, today, threads, rules, rules_file>>

NextPlan == Plan \/ Reconcile \/ ReturnPlan

SpecPlan == InitPlan /\ [][NextPlan]_vars

---------------------------------------------------------------------------
(* SpecRace: two threads, a web request and the background auto-collection, *)
(* each in one call of cache_set_unified.  Nothing in the code holds a lock *)
(* across a call; the read of the document (cache_get_unified, line 60) and *)
(* the write (REPLACE, lines 128-135) are separate database transactions.   *)

ThreadNames == {"web", "auto"}

IdleThread ==
    [pc |-> "idle", query_type |-> "", columns |-> <<>>, new_data |-> <<>>,
     existing_cache |-> NoDoc, ok |-> FALSE]

\* the calls of a thread: a batch of one or two provider rows, or a row too
\* short, for either entity
RaceCalls ==
    {<<query_type, ColsSql, new_data>> :
        query_type \in QueryTypes,
        new_data \in {<<r>> : r \in SqlRows \cup {ShortRow}}
                     \cup {<<<<ProviderName, 101, 1>>, <<ProviderName, 102, 1>>>>}}

InitRace ==
    /\ store = [k \in Keys |-> NoDoc]
    /\ today = MaxDay
    /\ last = Idle
    /\ threads = [t \in ThreadNames |-> IdleThread]
    /\ rules = default_rules
    /\ rules_file = default_rules

\* lines 54-74: thread t enters cache_set_unified, validates the batch and
\* reads the document of the entity
ReadExistingOf(t, calls) ==
    /\ threads[t].pc = "idle"
    /\ \E c \in calls :
           threads' = [threads EXCEPT ![t] =
               IF validate_data_structure(c[2], c[3])
               THEN [pc |-> "merge", query_type |-> c[1], columns |-> c[2],
                     new_data |-> c[3],
                     existing_cache |-> cache_get_unified(store, c[1], "e1"),
                     ok |-> FALSE]
               ELSE [pc |-> "done", query_type |-> c[1], columns |-> c[2],
                     new_data |-> c[3], existing_cache |-> NoDoc, ok |-> FALSE]]
    /\ UNCHANGED <<store, today, last, rules, rules_file>>

\* lines 76-140: thread t merges the batch into the document it has read and
\* writes the result
WriteMerged(t) ==
    /\ threads[t].pc = "merge"
    /\ \E r \in {cache_set_unified(threads[t].existing_cache, threads[t].columns,
                                   threads[t].new_data, today)} :
           /\ store' = [store EXCEPT ![KeyOf(threads[t].query_type)] = r.stored]
           /\ threads' = [threads EXCEPT ![t].pc = "done", ![t].ok = r.ok]
    /\ UNCHANGED <<today, last, rules, rules_file>>

ReadExisting(t) == ReadExistingOf(t, RaceCalls)

NextRace == \E t \in ThreadNames : ReadExisting(t) \/ WriteMerged(t)

SpecRace == InitRace /\ [][NextRace]_vars

---------------------------------------------------------------------------
(* SpecRaceColumns: the two threads of SpecRace, whose calls may also pass  *)
(* the column list of generate_mock_data (here without rows).               *)

RaceColumnCalls == RaceCalls \cup {<<query_type, ColsMock, <<>>>> : query_type \in QueryTypes}

ReadExistingColumns(t) == ReadExistingOf(t, RaceColumnCalls)

NextRaceColumns == \E t \in ThreadNames : ReadExistingColumns(t) \/ WriteMerged(t)

SpecRaceColumns == InitRace /\ [][NextRaceColumns]_vars

---------------------------------------------------------------------------
(* SpecAlert: alert evaluation (api_alerts, one cache entry per step) on a  *)
(* document with impressions, while the auto-collection thread merges a row *)
(* for yesterday into the same document.                                    *)

alert_row(tag_id, d, impressions) == <<ProviderName, tag_id, d, impressions>>

\* the days of the rows of tag 101, as days before today, and the values a
\* row of that day can have (0: no row)
AlertOffsets == <<15, 14, 8, 7, 3, 2, 1, 0>>

AlertValues ==
    {<<a, b, c, d, e, f, g, h>> :
        a \in {0, 6000}, b \in {0, 6000}, c \in {0, 6000}, d \in {0, 2000},
        e \in {0, 3000}, f \in {0, 2000, 2500, 4000, 6000},
        g \in {0, 1000, 2000, 2600, 4000}, h \in {0, 8000}}

rows_of_values(v, now) ==
    LET present == SelectSeq([k \in 1..Len(v) |-> k], LAMBDA k : v[k] > 0)
    IN  [k \in 1..Len(present) |->
            alert_row(101, now - AlertOffsets[present[k]], v[present[k]])]

Reverse(s) == [k \in 1..Len(s) |-> s[Len(s) + 1 - k]]

\* documents of the seat in SpecAlert: rows of tag 101, with or without two
\* rows of tag 102, in the order of their dates or against it
AlertDocs(now) ==
    {[exists |-> TRUE, columns |-> ColsAlert, data |-> data] :
        data \in UNION {{rows_of_values(v, now) \o other,
                         Reverse(rows_of_values(v, now) \o other)} :
                            v \in AlertValues,
                            other \in {<<>>, <<alert_row(102, now - 2, 6000),
                                               alert_row(102, now - 1, 1000)>>}}}

\* documents of the publisher in SpecAlert: one without impressions and, next
\* to the empty document of the seat, one without tag ids
PlainDocs(now) ==
    {[exists |-> TRUE, columns |-> ColsSql,
      data |-> <<<<ProviderName, 101, now - 2>>, <<ProviderName, 101, now - 1>>>>],
     [exists |-> TRUE, columns |-> ColsNoTag,
      data |-> <<<<ProviderName, 7, now - 2>>, <<ProviderName, 7, now - 1>>>>]}

\* the thresholds of a call: the defaults, or lower and higher ones
AlertThresholds == {<<DayThreshold, WeekThreshold, WeekIncreaseThreshold>>, <<20, 30, 40>>}

AlertCalls == {<<"query1", ColsAlert, <<alert_row(101, today - 1, 1000)>>>>}

InitAlert ==
    /\ today = AlertToday
    /\ \E doc \in AlertDocs(AlertToday), plain \in PlainDocs(AlertToday) :
           /\ doc.data = <<>> \/ plain.columns = ColsSql
           /\ store = [k \in Keys |-> IF k = KeyOf("query1") THEN doc ELSE plain]
    /\ last = Idle
    /\ threads = [t \in {"auto"} |-> IdleThread]
    /\ rules = default_rules
    /\ rules_file = default_rules

\* api.py lines 29-36: one entry of the cache is loaded and evaluated
EvaluateWith(choices) ==
    /\ \E query_type \in QueryTypes, thresholds \in choices :
           /\ store[KeyOf(query_type)].exists
           /\ \E cache_object \in {store[KeyOf(query_type)]} :
              \E r \in {generate_comprehensive_alerts(cache_object.data,
                            cache_object.columns, today,
                            thresholds[1], thresholds[2], thresholds[3])} :
                  last' = [Idle EXCEPT !.op = "alerts",
                                       !.query_type = query_type,
                                       !.columns = cache_object.columns,
                                       !.daily_data = cache_object.data,
                                       !.now = today,
                                       !.thresholds = thresholds,
                                       !.alerts = r.alerts,
                                       !.after = [columns |-> r.columns,
                                                  daily_data |-> r.daily_data]]
    /\ UNCHANGED <<store, today, threads, rules, rules_file>>

\* a caller that passes thresholds of its own
Evaluate == EvaluateWith(AlertThresholds)

NextAlert ==
    \/ Evaluate
    \/ ReadExistingOf("auto", AlertCalls)
    \/ WriteMerged("auto")

SpecAlert == InitAlert /\ [][NextAlert]_vars

---------------------------------------------------------------------------
(* SpecBadRow: api_alerts on a document with the rows of two tags, while    *)
(* the auto-collection thread merges one more row of tag 102, whose         *)
(* date_key may be one that strptime rejects.                               *)

\* the rows of tag 101 two days and one day before today
BadRowValues == {<<p, c>> : p \in {2000, 3000, 6000}, c \in {1000, 2000, 3000, 6000}}

\* the rows of tag 102 in the document at the start
OtherRows(now) ==
    {<<>>,
     <<alert_row(102, now - 2, 6000)>>,
     <<alert_row(102, now - 3, 6000), alert_row(102, now - 1, 1000)>>,
     <<alert_row(102, BadDate, 6000)>>}

BadRowDocs(now) ==
    {[exists |-> TRUE, columns |-> ColsAlert,
      data |-> <<alert_row(101, now - 2, v[1]), alert_row(101, now - 1, v[2])>> \o other] :
        v \in BadRowValues, other \in OtherRows(now)}

\* the batch of the merge: a well-formed or a malformed row of tag 102
BadRowCalls ==
    {<<"query1", ColsAlert, <<alert_row(102, d, 4000)>>>> : d \in {BadDate, today - 1}}

InitBadRow ==
    /\ today = AlertToday
    /\ \E doc \in BadRowDocs(AlertToday) :
           store = [k \in Keys |-> IF k = KeyOf("query1") THEN doc ELSE NoDoc]
    /\ last = Idle
    /\ threads = [t \in {"auto"} |-> IdleThread]
    /\ rules = default_rules
    /\ rules_file = default_rules

\* api.py lines 29-38: one entry of the cache is loaded and evaluated
EvaluateEntry ==
    /\ \E query_type \in QueryTypes :
           /\ store[KeyOf(query_type)].exists
           /\ \E cache_object \in {store[KeyOf(query_type)]} :
              \E alerts \in {alerts_of_entry(cache_object, today)} :
                  last' = [Idle EXCEPT !.op = "api_alerts",
                                       !.query_type = query_type,
                                       !.columns = cache_object.columns,
                                       !.daily_data = cache_object.data,
                                       !.now = today,
                                       !.alerts = alerts]
    /\ UNCHANGED <<store, today, threads, rules, rules_file>>

NextBadRow ==
    \/ EvaluateEntry
    \/ ReadExistingOf("auto", BadRowCalls)
    \/ WriteMerged("auto")

SpecBadRow == InitBadRow /\ [][NextBadRow]_vars

---------------------------------------------------------------------------
(* SpecRules: the AlertRules instance, its file, the requests of            *)
(* /alerts/rules that change them, and alert evaluation by api_alerts.      *)

RuleTags == {101, 102}

\* rule files found at start: the default one, two with other time rules, one
\* written by hand without the two weekly thresholds
RuleFiles ==
    {default_rules,
     [default_rules EXCEPT !.time_based_rules.business_hours_only = TRUE],
     [default_rules EXCEPT !.time_based_rules.weekend_alerts = FALSE],
     [default_rules EXCEPT !.global_thresholds =
         [k \in {"day_over_day_drop", "gap_tolerant_drop", "minimum_impressions"} |->
             default_rules.global_thresholds[k]]]}

\* the thresholds and conditions arguments of add_tag_rule
TagRuleArguments ==
    {<<EmptyDict, <<>>>>,
     <<[k \in {"day_over_day"} |-> 10],
       <<[type |-> "severity_minimum", minimum |-> "high"]>>>>}

GlobalUpdates == {[k \in {"day_over_day_drop"} |-> 50]}

\* one condition of each type: tag ids that contain "2", severity from
\* medium, a change of 30 percent or more, the time from 09:00 to 17:00
CustomConditions ==
    {[type |-> "tag_pattern", pattern |-> <<2>>],
     [type |-> "severity_minimum", minimum |-> "medium"],
     [type |-> "change_threshold", threshold |-> 30],
     [type |-> "time_range", start_time |-> 9 * 60, end_time |-> 17 * 60]}

\* alerts offered to should_send_alert, each with the tag id passed
SampleAlerts ==
    {<<[severity |-> "low", change_percent |-> [num |-> 0 - 2000, den |-> 100]], 101>>,
     <<[severity |-> "high", change_percent |-> [num |-> 0 - 6000, den |-> 100]], 101>>,
     <<[severity |-> "high", change_percent |-> [num |-> 0 - 6000, den |-> 100]], 102>>}

\* the time of a call: Friday at 08:59, 09:00, 17:59 and 18:00, Saturday at
\* 09:00
SampleClocks ==
    {<<4, 8 * 60 + 59>>, <<4, 9 * 60>>, <<4, 17 * 60 + 59>>, <<4, 18 * 60>>,
     <<5, 9 * 60>>}

SaveOutcomes == {"ok", "open_failed", "write_failed"}

AlertTypes == {"day_over_day", "week_over_week", "week_over_week_increase",
               "gap_tolerant", "month_over_month"}

\* the tags that get a rule of their own
RuledTags == {101}

\* the document of the seat: tag 101 with 4000 and then 3400, a drop of 15
\* percent from one day to the next
FifteenPercentDoc(now) ==
    [exists |-> TRUE, columns |-> ColsAlert,
     data |-> <<alert_row(101, now - 2, 4000), alert_row(101, now - 1, 3400)>>]

InitRules ==
    /\ today = AlertToday
    /\ store = [k \in Keys |-> IF k = KeyOf("query1")
                                THEN FifteenPercentDoc(AlertToday) ELSE NoDoc]
    /\ last = Idle
    /\ threads = NoThreads
    /\ rules \in RuleFiles
    /\ rules_file = rules

\* the rule set is changed in memory, then save_rules is called and its value
\* returned (lines 165, 171, 177, 182).  The model lets a save fail only when
\* the one before it has succeeded.
Mutate(op, rule_set) ==
    \E outcome \in SaveOutcomes :
        \E saved \in {save_rules(rule_set, rules_file, outcome)} :
            /\ outcome = "ok" \/ rules = rules_file
            /\ rules' = rule_set
            /\ rules_file' = saved.file
            /\ last' = [Idle EXCEPT !.op = op, !.ok = saved.ok]
            /\ UNCHANGED <<store, today, threads>>

AddTagRule ==
    \E tag_id \in RuledTags, arguments \in TagRuleArguments :
        Mutate("add_tag_rule", add_tag_rule(rules, tag_id, arguments[1], arguments[2]))

\* lines 167-172: a tag without a rule is reported removed without a save
RemoveTagRule ==
    \E tag_id \in RuledTags :
        IF tag_id \in DOMAIN rules.tag_specific_rules
        THEN Mutate("remove_tag_rule", remove_tag_rule(rules, tag_id))
        ELSE /\ last' = [Idle EXCEPT !.op = "remove_tag_rule", !.ok = TRUE]
             /\ UNCHANGED <<store, today, threads, rules, rules_file>>

AddCustomCondition ==
    /\ Len(rules.custom_conditions) < MaxConditions
    /\ \E condition \in CustomConditions :
           Mutate("add_custom_condition", add_custom_condition(rules, condition))

UpdateGlobalThresholds ==
    \E thresholds \in GlobalUpdates :
        Mutate("update_global_thresholds", update_global_thresholds(rules, thresholds))

GetThreshold ==
    /\ \E tag_id \in RuleTags, alert_type \in AlertTypes :
           last' = [Idle EXCEPT !.op = "get_threshold_for_tag",
                                !.tag_id = tag_id,
                                !.alert_type = alert_type,
                                !.result = get_threshold_for_tag(rules, tag_id, alert_type)]
    /\ UNCHANGED <<store, today, threads, rules, rules_file>>

ShouldSend ==
    /\ \E sample \in SampleAlerts, clock \in SampleClocks :
           last' = [Idle EXCEPT !.op = "should_send_alert",
                                !.tag_id = sample[2],
                                !.alert = sample[1],
                                !.weekday = clock[1],
                                !.minute = clock[2],
                                !.result = should_send_alert(rules, sample[1], sample[2],
                                                             clock[1], clock[2])]
    /\ UNCHANGED <<store, today, threads, rules, rules_file>>

\* api.py line 35: the call passes no thresholds, the defaults of the
\* signature apply
EvaluateDefaults ==
    EvaluateWith({<<DayThreshold, WeekThreshold, WeekIncreaseThreshold>>})

NextRules ==
    \/ AddTagRule
    \/ RemoveTagRule
    \/ AddCustomCondition
    \/ UpdateGlobalThresholds
    \/ GetThreshold
    \/ ShouldSend
    \/ EvaluateDefaults

SpecRules == InitRules /\ [][NextRules]_vars

---------------------------------------------------------------------------
(* Administrative purges: clear_cache_by_tag and clear_cache *)

\* cache_key.startswith(('seat_id_', 'publisher_id_'))
is_entity_key(cache_key) == cache_key[1] \in {"seat_id", "publisher_id"}

\* row[tag_id_index] raises IndexError on a row that short
row_too_short(row, tag_id_index) == Len(row) < tag_id_index

\* str(row[tag_id_index]) == str(tag_id)
row_has_tag(row, tag_id_index, tag_id) == row[tag_id_index] = tag_id

RECURSIVE drop_first_with_tag(_, _, _)
\* data without its first row of the tag
drop_first_with_tag(data, tag_id_index, tag_id) ==
    IF data = <<>> THEN <<>>
    ELSE IF row_has_tag(Head(data), tag_id_index, tag_id) THEN Tail(data)
    ELSE <<Head(data)>> \o drop_first_with_tag(Tail(data), tag_id_index, tag_id)

clear_cache_entry_first_match(cache_key, cache_object, tag_id) ==
    LET tag_id_index == IndexOf(cache_object.columns, "tag_id")
        data == cache_object.data
        has_tag == \E i \in 1..Len(data) : row_has_tag(data[i], tag_id_index, tag_id)
        filtered_rows == drop_first_with_tag(data, tag_id_index, tag_id)
    IN  IF ~cache_object.exists \/ ~is_entity_key(cache_key) \/ tag_id_index = 0
           \/ ~has_tag
        THEN [entry |-> cache_object, modified |-> FALSE]
        ELSE IF filtered_rows # <<>>
        THEN [entry |-> [cache_object EXCEPT !.data = filtered_rows], modified |-> TRUE]
        ELSE [entry |-> NoDoc, modified |-> TRUE]

\* lines 280-320, the body of the loop of clear_cache_by_tag for one entry of
\* the table: entry is the entry afterwards (NoDoc: deleted), modified says
\* whether removed_count went up.  Both any() of line 291 and the list
\* comprehension of line 295 read row[tag_id_index]: a row too short for the
\* index raises IndexError before a match (any) or at the latest in the
\* comprehension, and the except of line 319 leaves the entry as it is.  When
\* has_tag holds the comprehension drops at least one row, so the test of
\* line 297 is true.
clear_cache_entry(cache_key, cache_object, tag_id) ==
    LET tag_id_index == IndexOf(cache_object.columns, "tag_id")
        data == cache_object.data
        raises == \E i \in 1..Len(data) : row_too_short(data[i], tag_id_index)
        has_tag == \E i \in 1..Len(data) : row_has_tag(data[i], tag_id_index, tag_id)
        filtered_rows == SelectSeq(data, LAMBDA row : ~row_has_tag(row, tag_id_index, tag_id))
    IN  IF ~cache_object.exists \/ ~is_entity_key(cache_key) \/ tag_id_index = 0
        THEN [entry |-> cache_object, modified |-> FALSE]
        ELSE IF raises \/ ~has_tag
        THEN [entry |-> cache_object, modified |-> FALSE]
        ELSE IF filtered_rows # <<>>
        THEN [entry |-> [cache_object EXCEPT !.data = filtered_rows], modified |-> TRUE]
        ELSE [entry |-> NoDoc, modified |-> TRUE]

\* clear_cache_by_tag(tag_id) on the table st: the table afterwards and the
\* returned removed_count
clear_cache_by_tag(st, tag_id) ==
    [store |-> [k \in DOMAIN st |-> clear_cache_entry(k, st[k], tag_id).entry],
     removed_count |->
         Cardinality({k \in DOMAIN st : clear_cache_entry(k, st[k], tag_id).modified})]

\* clear_cache: DELETE FROM query_cache
clear_cache(st) == [k \in DOMAIN st |-> NoDoc]

---------------------------------------------------------------------------
(* SpecPurge: merges into the documents of seat e1 and publisher e1, one   *)
(* call at a time, and the two purges of the admin endpoints.              *)

MaxPurgeRows == 3

PurgeTags == {101, 102, 103}

\* the merges offered: one provider row or no row for the seat, under the
\* SQL column list or (without rows) the mock one; one row or none for the
\* publisher
PurgeCalls ==
    {<<"query1", ColsSql, new_data>> : new_data \in {<<>>} \cup {<<r>> : r \in SqlRows}}
    \cup {<<"query1", ColsMock, <<>>>>}
    \cup {<<"query2", ColsSql, new_data>> : new_data \in {<<>>, <<GoodRow>>}}

InitPurge ==
    /\ store = [k \in Keys |-> NoDoc]
    /\ today = MaxDay
    /\ last = Idle
    /\ threads = NoThreads
    /\ rules = default_rules
    /\ rules_file = default_rules

\* cache_set_unified(query_type, "e1", columns, new_data) runs
PurgeMerge ==
    /\ last.op = "none"
    /\ \E c \in PurgeCalls :
         \E r \in {cache_set_unified(cache_get_unified(store, c[1], "e1"),
                                     c[2], c[3], today)} :
           /\ Len(r.stored.data) <= MaxPurgeRows
           /\ store' = [store EXCEPT ![KeyOf(c[1])] = r.stored]
           /\ last' = [Idle EXCEPT !.op = "merge", !.query_type = c[1], !.ok = r.ok]
    /\ UNCHANGED <<today, threads, rules, rules_file>>

\* POST /cache/clear-tag: clear_cache_by_tag(tag_id) runs
ClearCacheByTag ==
    /\ last.op = "none"
    /\ \E tag_id \in PurgeTags :
         \E r \in {clear_cache_by_tag(store, tag_id)} :
           /\ store' = r.store
           /\ last' = [Idle EXCEPT !.op = "clear_cache_by_tag", !.tag_id = tag_id,
                                   !.before = store[KeyOf("query1")],
                                   !.result = r.removed_count]
    /\ UNCHANGED <<today, threads, rules, rules_file>>

\* POST /cache/clear: clear_cache() runs
ClearCache ==
    /\ last.op = "none"
    /\ store' = clear_cache(store)
    /\ last' = [Idle EXCEPT !.op = "clear_cache"]
    /\ UNCHANGED <<today, threads, rules, rules_file>>

NextPurge == PurgeMerge \/ ClearCacheByTag \/ ClearCache \/ Return

SpecPurge == InitPurge /\ [][NextPurge]_vars

---------------------------------------------------------------------------
(* SpecChunks: fetch_query2_in_smaller_chunks applied to a date range,      *)
(* against a provider whose queries fail when they span too many days.      *)

MaxChunkDay == 16

\* providers that hold rows for all or for the odd days, and whose queries
\* fail, by a timeout or an error status, from 1, 4 or 8 days on
ChunkBehaviours ==
    {[data |-> data, over |-> over, kind |-> kind] :
        data \in {"all", "odd"}, over \in {0, 3, SmallChunkStepDays + 1},
        kind \in {"timeout", "error"}}

InitChunks ==
    /\ store = [k \in Keys |-> NoDoc]
    /\ today = MaxChunkDay + 1
    /\ last = Idle
    /\ threads = NoThreads
    /\ rules = default_rules
    /\ rules_file = default_rules

\* fetch_query2_in_smaller_chunks(date_from, date_to, "e1") runs
FetchInSmallerChunks ==
    /\ last.op = "none"
    /\ \E date_from \in 1..MaxChunkDay, date_to \in 1..MaxChunkDay,
          behaviour \in ChunkBehaviours :
       \E r \in {fetch_query2_in_smaller_chunks(behaviour, date_from, date_to, 1)} :
           last' = [Idle EXCEPT !.op = "chunks", !.query_type = "query2",
                                !.date_from = date_from, !.date_to = date_to,
                                !.now = today, !.behaviour = behaviour,
                                !.calls = r.calls, !.ret_columns = r.columns,
                                !.ret_rows = r.data]
    /\ UNCHANGED <<store, today, threads, rules, rules_file>>

NextChunks == FetchInSmallerChunks \/ Return

SpecChunks == InitChunks /\ [][NextChunks]_vars

---------------------------------------------------------------------------
(* Properties of cache_set_unified, checked under Spec *)

\* the rows of a document that have a date_key and a tag_id cell under the
\* document's column list, as every reader of the document finds them
KeyedRows(doc) ==
    LET di == IndexOf(doc.columns, "date_key")
        ti == IndexOf(doc.columns, "tag_id")
    IN  IF di = 0 \/ ti = 0 THEN {}
        ELSE {i \in 1..Len(doc.data) : Len(doc.data[i]) >= Max(di, ti)}

DocKey(doc, i) ==
    combo_key(doc.data[i], IndexOf(doc.columns, "date_key"),
              IndexOf(doc.columns, "tag_id"))

DocDate(doc, i) == doc.data[i][IndexOf(doc.columns, "date_key")]

LastDoc == store[KeyOf(last.query_type)]

\* C1: after any sequence of merges from an absent document, no two rows of a
\* document share the same (date_key, tag_id) pair.
C1_NoDuplicateKeys ==
    \A k \in Keys : \A i, j \in KeyedRows(store[k]) :
        i # j => DocKey(store[k], i) # DocKey(store[k], j)

\* C2: after any merge the stored document holds no row whose date_key is
\* the processing date of that merge or later.
C2_NoFutureRows ==
    last.op = "merge" /\ last.ok =>
        \A i \in KeyedRows(LastDoc) : ~StrGE(DocDate(LastDoc, i), last.now)

\* C3: merging the same (columns, rows) batch a second time, right after the
\* first, leaves the rows of the document (and their count) as they were
\* after the first merge.
C3_IdempotentMerge ==
    last.op = "merge" /\ last.repeat =>
        /\ LastDoc.data = last.before.data
        /\ Len(LastDoc.data) = Len(last.before.data)

\* C3 witness: a second merge of a batch of which a row is stored
C3_Witness ==
    /\ last.op = "merge" /\ last.repeat /\ last.ok
    /\ \E i \in 1..Len(last.new_data) : last.new_data[i] \in Range(LastDoc.data)

\* the positions of the batch whose row has a width other than len(columns)
BadWidth(columns, new_data) ==
    {i \in 1..Len(new_data) : Len(new_data[i]) # Len(columns)}

C9_FailureWritesNothing ==
    last.op = "merge" /\ ~last.ok => LastDoc = last.before

\* C9 witness: a merge failed for a column list without tag_id that differs from
\* the columns of the stored document
C9_Witness ==
    /\ last.op = "merge" /\ ~last.ok
    /\ last.columns = ColsNoTag
    /\ last.before.exists /\ last.before.columns # last.columns

---------------------------------------------------------------------------
(* Properties of the planner and the orchestration, checked under SpecPlan *)

\* the normalized to_date of the last request
LastTo == IF last.date_to >= last.now THEN last.now - 1 ELSE last.date_to

\* the dates of a range
Dates(range) == range[1]..range[2]

\* the dates of the last request for which the document the call found holds
\* no row
Uncached ==
    {d \in last.date_from..LastTo :
        ~\E i \in 1..Len(last.before.data) : DocDate(last.before, i) = d}

\* the dates of the planned range r for which a provider call was answered
FetchedDates(r) ==
    {d \in Dates(r) : \E k \in 1..Len(last.calls) :
        /\ d \in Dates(last.calls[k])
        /\ http_outcome(last.behaviour, last.calls[k][1], last.calls[k][2]) = "ok"}

Planned == last.op \in {"plan", "reconcile"} /\ last.date_from <= LastTo

\* C5: the planned ranges are pairwise disjoint and in ascending order, their
\* union is the set of requested dates without a cached row, and two ranges
\* that touch come from the chunking of one run (the first is a full chunk).
C5_PlanIsExactPartition ==
    Planned =>
        /\ \A i \in 1..Len(last.plan) : last.plan[i][1] <= last.plan[i][2]
        /\ \A i, j \in 1..Len(last.plan) : i < j => last.plan[i][2] < last.plan[j][1]
        /\ UNION {Dates(last.plan[i]) : i \in 1..Len(last.plan)} = Uncached
        /\ \A i \in 1..(Len(last.plan) - 1) :
               last.plan[i + 1][1] = last.plan[i][2] + 1 =>
                   last.plan[i][2] - last.plan[i][1] = ChunkStepDays

\* C5 witness: a plan for a document with cached days inside the request that
\* has a run cut by a cached day and a run cut by chunking
C5_Witness ==
    /\ last.op = "plan" /\ last.date_from <= LastTo
    /\ \E d \in last.date_from..LastTo : d \notin Uncached
    /\ \E i \in 1..(Len(last.plan) - 1) : last.plan[i + 1][1] = last.plan[i][2] + 2
    /\ \E i \in 1..(Len(last.plan) - 1) : last.plan[i + 1][1] = last.plan[i][2] + 1

\* C6 as claimed: every planned range spans at most 21 calendar days.
C6_RangesWithinCeiling ==
    Planned =>
        \A i \in 1..Len(last.plan) :
            last.plan[i][2] - last.plan[i][1] + 1 <= ChunkCeilingDays

\* C7: a request of 40 days none of which is cached is planned as the three
\* ranges of 14, 14 and 12 days that follow each other from from_date on.
C7_FortyDaysInThree ==
    /\ last.op = "plan"
    /\ LastTo - last.date_from + 1 = 40
    /\ Uncached = last.date_from..LastTo
    => last.plan = <<<<last.date_from, last.date_from + 13>>,
                     <<last.date_from + 14, last.date_from + 27>>,
                     <<last.date_from + 28, last.date_from + 39>>>>

\* C7 witness: the planner ran on a 40-day request with nothing cached
C7_Witness ==
    /\ last.op = "plan"
    /\ LastTo - last.date_from + 1 = 40
    /\ Uncached = last.date_from..LastTo
    /\ Len(last.plan) = 3

\* the 7-day sub-chunks of the planned ranges
SubChunks ==
    UNION {Range(small_chunks(last.plan[i][1], last.plan[i][2])) :
              i \in 1..Len(last.plan)}

\* how often the provider was called for the range r
TimesFetched(r) == Cardinality({k \in 1..Len(last.calls) : last.calls[k] = r})

FailedRanges ==
    {i \in 1..Len(last.plan) :
        http_outcome(last.behaviour, last.plan[i][1], last.plan[i][2]) # "ok"}

\* the planned ranges of the last call the provider answered with rows
AnsweredRanges ==
    {i \in 1..Len(last.plan) :
        /\ i \notin FailedRanges
        /\ \E d \in Dates(last.plan[i]) : HasData(last.behaviour, d)}

\* the document of the entity holds a row dated d
Stored(d) == \E i \in 1..Len(LastDoc.data) : DocDate(LastDoc, i) = d

\* the document the call found held a row dated d
StoredBefore(d) ==
    \E i \in 1..Len(last.before.data) : DocDate(last.before, i) = d

\* C11: a provider failure on a planned range does not end a reconcile call:
\* every planned range is fetched, the rows of the ranges the provider
\* answered are in the store, and the call returns the rows of the document.
C11_FailureDoesNotAbort ==
    last.op = "reconcile" =>
        /\ \A i \in 1..Len(last.plan) : last.plan[i] \in Range(last.calls)
        /\ \A i \in 1..Len(last.plan) : i \notin FailedRanges =>
               \A d \in Dates(last.plan[i]) : HasData(last.behaviour, d) => Stored(d)
        /\ last.date_from <= LastTo /\ LastDoc.exists =>
               last.ret_columns = LastDoc.columns

\* C11 witness: a reconcile call in which the provider failed for a planned
\* range and answered a later one, whose rows were written
C11_Witness ==
    /\ last.op = "reconcile" /\ last.wrote
    /\ \E i \in FailedRanges, j \in AnsweredRanges : i < j

C13_ReturnsRequestedRows ==
    last.op = "reconcile" =>
        last.ret_rows =
            SelectSeq(LastDoc.data,
                      LAMBDA row : row[IndexOf(LastDoc.columns, "date_key")]
                                       \in last.date_from..LastTo)

\* C13 witness: a reconcile call wrote rows and returned some rows of the
\* document but not the stored rows dated after to_date or before from_date
C13_Witness ==
    /\ last.op = "reconcile" /\ last.wrote /\ last.ret_rows # <<>>
    /\ \E d \in 1..PlanHorizon : d > LastTo /\ Stored(d)
    /\ \E d \in 1..PlanHorizon : d < last.date_from /\ Stored(d)

---------------------------------------------------------------------------
(* Properties of concurrent merges, checked under SpecRace *)

\* the rows of the batch of thread t that cache_set_unified appends to a
\* document without their key
Appendable(t) ==
    {i \in 1..Len(threads[t].new_data) :
        passes_row_checks(threads[t].new_data, i, 3, 2, today)}

\* C14 as claimed: concurrent merges for one entity do not interleave, so the
\* document of the entity holds a row for every key a finished, successful
\* call had to append.
C14_NoLostUpdate ==
    \A t \in DOMAIN threads :
        threads[t].pc = "done" /\ threads[t].ok =>
            \A i \in Appendable(t) :
                \E j \in KeyedRows(store[KeyOf(threads[t].query_type)]) :
                    DocKey(store[KeyOf(threads[t].query_type)], j)
                        = combo_key(threads[t].new_data[i], 3, 2)

\* C15: a step changes the document of an entity only when it is the write of
\* a merge for that entity (seat e1 and publisher e1 are different entities),
\* and after two concurrent merges for different entities each document is
\* what the merge alone makes of it.
C15_OtherEntitiesUntouched ==
    /\ [][\A q \in QueryTypes :
            (\A t \in DOMAIN threads :
                ~(threads[t].pc = "merge" /\ threads'[t].pc = "done"
                  /\ threads[t].query_type = q))
            => store'[KeyOf(q)] = store[KeyOf(q)]]_vars
    /\ [](\A t, u \in DOMAIN threads :
            /\ threads[t].pc = "done" /\ threads[u].pc = "done"
            /\ threads[t].query_type # threads[u].query_type
            => store[KeyOf(threads[t].query_type)]
                   = IF threads[t].ok
                     THEN cache_set_unified(NoDoc, threads[t].columns,
                                            threads[t].new_data, today).stored
                     ELSE NoDoc)

\* C15 witness: both threads have finished a merge that appended rows, one for
\* the seat and one for the publisher with the same id, with steps interleaved
C15_Witness ==
    /\ DOMAIN threads = ThreadNames
    /\ \A t \in ThreadNames : threads[t].pc = "done" /\ threads[t].ok
    /\ threads["web"].query_type = "query1" /\ threads["auto"].query_type = "query2"
    /\ threads["auto"].existing_cache = NoDoc
    /\ \A q \in QueryTypes : Len(store[KeyOf(q)].data) > 0

---------------------------------------------------------------------------
(* Properties of the alert engine, checked under SpecAlert.  The expected   *)
(* values are computed from the rows of the evaluated document (layout      *)
(* ColsAlert: tag id in cell 2, date in cell 3, impressions in cell 4).     *)

Evaluated == last.op = "alerts" /\ last.columns = ColsAlert

\* the alerts of the last evaluation for a tag, of the given types
AlertsOf(tag_id, types) ==
    SelectSeq(last.alerts, LAMBDA a : a.tag_id = tag_id /\ a.alert_type \in types)

\* the rows of a tag dated before the processing date, and all its rows
PastRows(tag_id) ==
    {i \in 1..Len(last.daily_data) :
        last.daily_data[i][2] = tag_id /\ last.daily_data[i][3] < last.now}

LaterRows(tag_id) ==
    {i \in 1..Len(last.daily_data) :
        last.daily_data[i][2] = tag_id /\ last.daily_data[i][3] >= last.now}

\* the most recent past row of a tag, and the one preceding it
Current(tag_id) ==
    CHOOSE i \in PastRows(tag_id) :
        \A j \in PastRows(tag_id) : last.daily_data[j][3] <= last.daily_data[i][3]

Preceding(tag_id) ==
    CHOOSE i \in PastRows(tag_id) \ {Current(tag_id)} :
        \A j \in PastRows(tag_id) \ {Current(tag_id)} :
            last.daily_data[j][3] <= last.daily_data[i][3]

DateOf(i) == last.daily_data[i][3]

ValueOf(i) == last.daily_data[i][4]

RECURSIVE SumOfValues(_)
SumOfValues(S) ==
    IF S = {} THEN 0
    ELSE LET i == CHOOSE x \in S : TRUE IN ValueOf(i) + SumOfValues(S \ {i})

\* the total of the past rows of a tag dated first..final days before its
\* current date
WindowSum(tag_id, first, final) ==
    SumOfValues({i \in PastRows(tag_id) :
        /\ DateOf(Current(tag_id)) - DateOf(i) >= final
        /\ DateOf(Current(tag_id)) - DateOf(i) <= first})

AlertTags == {101, 102}

\* C16: alert evaluation changes neither the stored documents nor the locals
\* of a merge in progress, the columns and rows passed to it are on return
\* what they were, and the merge in progress stores what it would have stored
\* without the evaluation.
C16_EvaluationReadOnly ==
    /\ [][last' # last /\ last'.op = "alerts" =>
            /\ store' = store
            /\ threads' = threads
            /\ last'.after = [columns |-> last'.columns,
                              daily_data |-> last'.daily_data]]_vars
    /\ [](\A t \in DOMAIN threads :
            threads[t].pc = "done" /\ threads[t].ok =>
                store[KeyOf(threads[t].query_type)]
                    = cache_set_unified(threads[t].existing_cache, threads[t].columns,
                                        threads[t].new_data, today).stored)

\* C16 witness: an evaluation that produced alerts from rows stored in another
\* order than the engine sorts them, while a merge for the document is between
\* its read and its write
C16_Witness ==
    /\ Evaluated
    /\ last.alerts # <<>>
    /\ \E i, j \in 1..Len(last.daily_data) : i < j /\ DateOf(i) < DateOf(j)
    /\ "auto" \in DOMAIN threads
    /\ threads["auto"].pc = "merge"

\* C17: every alert is dated before the processing date, and the alerts are
\* those of the same document without its rows dated that day or later.
C17_TodayExcluded ==
    Evaluated =>
        /\ \A k \in 1..Len(last.alerts) : last.alerts[k].date < last.now
        /\ last.alerts
             = generate_comprehensive_alerts(
                   SelectSeq(last.daily_data, LAMBDA row : row[3] < last.now),
                   last.columns, last.now, last.thresholds[1],
                   last.thresholds[2], last.thresholds[3]).alerts

\* C17 witness: alerts for a tag that also has a row dated the processing date
C17_Witness ==
    /\ Evaluated
    /\ \E k \in 1..Len(last.alerts) : LaterRows(last.alerts[k].tag_id) # {}

\* the two most recent past rows of the tag are one day apart, the preceding
\* value is above 2500 and the drop is at least day_threshold percent
DayDropExpected(tag_id) ==
    /\ Cardinality(PastRows(tag_id)) >= 2
    /\ DateOf(Current(tag_id)) - DateOf(Preceding(tag_id)) = 1
    /\ ValueOf(Preceding(tag_id)) > 2500
    /\ (ValueOf(Preceding(tag_id)) - ValueOf(Current(tag_id))) * 100
           >= last.thresholds[1] * ValueOf(Preceding(tag_id))

\* C18: a tag gets a day_over_day alert exactly when its two most recent rows
\* are one day apart, the preceding value is above 2500 and the drop is at
\* least day_threshold percent; the alert carries the preceding value and the
\* negated drop.
C18_DayOverDay ==
    Evaluated =>
        \A tag_id \in AlertTags :
            LET found == AlertsOf(tag_id, {"day_over_day"})
            IN  /\ Len(found) = (IF DayDropExpected(tag_id) THEN 1 ELSE 0)
                /\ \A k \in 1..Len(found) :
                       /\ found[k].previous_value = ValueOf(Preceding(tag_id))
                       /\ found[k].current_value = ValueOf(Current(tag_id))
                       /\ found[k].change_percent.den = ValueOf(Preceding(tag_id))
                       /\ found[k].change_percent.num
                              = 0 - (ValueOf(Preceding(tag_id))
                                     - ValueOf(Current(tag_id))) * 100

\* C18 witness: a day_over_day alert for a drop of exactly 35 percent, in a
\* document where the other tag has one as well
C18_Witness ==
    /\ Evaluated
    /\ \E k \in 1..Len(AlertsOf(101, {"day_over_day"})) :
           /\ AlertsOf(101, {"day_over_day"})[k].previous_value = 4000
           /\ AlertsOf(101, {"day_over_day"})[k].current_value = 2600
    /\ Len(AlertsOf(102, {"day_over_day"})) = 1

\* the past rows of tag 101 are two: the given value yesterday, the other the
\* day before; the call uses the default thresholds
TwoDayExample(day_before, yesterday) ==
    /\ Evaluated
    /\ last.thresholds = <<35, 20, 25>>
    /\ Cardinality(PastRows(101)) = 2
    /\ DateOf(Current(101)) = last.now - 1 /\ ValueOf(Current(101)) = yesterday
    /\ DateOf(Preceding(101)) = last.now - 2 /\ ValueOf(Preceding(101)) = day_before

OneHighHalving(tag_id) ==
    LET found == AlertsOf(tag_id, {"day_over_day"})
    IN  /\ Len(found) = 1
        /\ 0 - found[1].change_percent.num = 50 * found[1].change_percent.den
        /\ found[1].severity = "high"

\* C19 as claimed: tag 101 with 1000 yesterday and 2000 the day before gets
\* exactly one day_over_day alert, a drop of 50 percent of severity high.
C19_ExampleAsClaimed == TwoDayExample(2000, 1000) => OneHighHalving(101)

\* C19: tag 101 with 1000 yesterday and 2000 the day before gets no
\* day_over_day alert, because 2000 is not above the floor 2500; with 2000
\* yesterday and 4000 the day before it gets exactly one, a drop of 50 percent
\* of severity high.
C19_ExampleAboveFloor ==
    /\ TwoDayExample(2000, 1000) => AlertsOf(101, {"day_over_day"}) = <<>>
    /\ TwoDayExample(4000, 2000) => OneHighHalving(101)

\* C19 witness: the evaluation of the document of the example
C19_Witness == TwoDayExample(2000, 1000) /\ Len(last.daily_data) = 2

\* the week-over-week alert expected of a tag: <<type, severity>>, or <<>>
WeekExpected(tag_id) ==
    LET current_sum == WindowSum(tag_id, 6, 0)
        previous_sum == WindowSum(tag_id, 13, 7)
    IN  IF Cardinality(PastRows(tag_id)) < 2 \/ previous_sum <= 2500 THEN <<>>
        ELSE IF /\ current_sum < previous_sum
                /\ (previous_sum - current_sum) * 100 >= last.thresholds[2] * previous_sum
        THEN <<"week_over_week",
               IF (previous_sum - current_sum) * 100 >= 40 * previous_sum THEN "high"
               ELSE IF (previous_sum - current_sum) * 100 >= 25 * previous_sum
                    THEN "medium" ELSE "low">>
        ELSE IF /\ current_sum > previous_sum
                /\ (current_sum - previous_sum) * 100 >= last.thresholds[3] * previous_sum
        THEN <<"week_over_week_increase",
               IF (current_sum - previous_sum) * 100 >= 50 * previous_sum THEN "high"
               ELSE IF (current_sum - previous_sum) * 100 >= 35 * previous_sum
                    THEN "medium" ELSE "low">>
        ELSE <<>>

\* C20: the week-over-week alert of a tag compares the total of its rows of
\* the 7 days ending at its current date with the total of the 7 days before
\* them, only when the latter is above 2500; a drop of at least week_threshold
\* percent gives week_over_week (high from 40, medium from 25, else low), an
\* increase of at least week_increase_threshold percent gives
\* week_over_week_increase (high from 50, medium from 35, else low); totals
\* 8000 against 12000 give one week_over_week alert of severity medium.
C20_WeekOverWeek ==
    Evaluated =>
        \A tag_id \in AlertTags :
            LET found == AlertsOf(tag_id, {"week_over_week", "week_over_week_increase"})
                expected == WeekExpected(tag_id)
            IN  /\ Len(found) = (IF expected = <<>> THEN 0 ELSE 1)
                /\ \A k \in 1..Len(found) :
                       /\ found[k].alert_type = expected[1]
                       /\ found[k].severity = expected[2]
                       /\ found[k].current_value = WindowSum(tag_id, 6, 0)
                       /\ found[k].previous_value = WindowSum(tag_id, 13, 7)
                /\ /\ Cardinality(PastRows(tag_id)) >= 2
                   /\ last.thresholds = <<35, 20, 25>>
                   /\ WindowSum(tag_id, 6, 0) = 8000
                   /\ WindowSum(tag_id, 13, 7) = 12000
                   => /\ Len(found) = 1
                      /\ found[1].alert_type = "week_over_week"
                      /\ found[1].severity = "medium"

\* C20 witness: the evaluation of a tag with totals 8000 against 12000, rows
\* on the first and the last day of both weeks and a row before them
C20_Witness ==
    /\ Evaluated
    /\ last.thresholds = <<35, 20, 25>>
    /\ WindowSum(101, 6, 0) = 8000
    /\ WindowSum(101, 13, 7) = 12000
    /\ \A n \in {0, 6, 7, 13, 14} :
           \E i \in PastRows(101) : DateOf(Current(101)) - DateOf(i) = n

\* C21: one evaluation never gives a tag both a week_over_week and a
\* week_over_week_increase alert for the same date.
C21_DropOrIncrease ==
    last.op = "alerts" =>
        \A j, k \in 1..Len(last.alerts) :
            ~ /\ last.alerts[j].alert_type = "week_over_week"
              /\ last.alerts[k].alert_type = "week_over_week_increase"
              /\ last.alerts[j].tag_id = last.alerts[k].tag_id
              /\ last.alerts[j].date = last.alerts[k].date

\* C21 witness: a weekly drop far above both thresholds, alerted as a drop
C21_Witness ==
    /\ Evaluated
    /\ Len(AlertsOf(101, {"week_over_week"})) = 1
    /\ (WindowSum(101, 13, 7) - WindowSum(101, 6, 0)) * 100
           >= 50 * WindowSum(101, 13, 7)

\* the up to three past rows of a tag that precede its most recent one
PrecedingRows(tag_id) ==
    {i \in PastRows(tag_id) \ {Current(tag_id)} :
        Cardinality({j \in PastRows(tag_id) \ {Current(tag_id)} :
                        DateOf(j) > DateOf(i)}) < 3}

\* those of them one to three days older than the most recent row and above
\* the floor
GapCandidates(tag_id) ==
    {i \in PrecedingRows(tag_id) :
        /\ DateOf(Current(tag_id)) - DateOf(i) \in 1..3
        /\ ValueOf(i) > 2500}

Closest(tag_id) ==
    CHOOSE i \in GapCandidates(tag_id) :
        \A j \in GapCandidates(tag_id) : DateOf(j) <= DateOf(i)

\* C22: a tag gets a gap_tolerant alert exactly when, among the up to three
\* rows preceding its most recent row, one is 1 to 3 days older and above 2500,
\* and the drop against the closest of those is at least 0.8 * day_threshold
\* percent; the alert compares with that row.  Current value 1000, 3000 two
\* days earlier and no row between them give one alert with days_gap 2.
C22_GapTolerant ==
    Evaluated =>
        \A tag_id \in AlertTags :
            LET found == AlertsOf(tag_id, {"gap_tolerant"})
                fires ==
                    /\ Cardinality(PastRows(tag_id)) >= 2
                    /\ GapCandidates(tag_id) # {}
                    /\ (ValueOf(Closest(tag_id)) - ValueOf(Current(tag_id))) * 1000
                           >= 8 * last.thresholds[1] * ValueOf(Closest(tag_id))
            IN  /\ Len(found) = (IF fires THEN 1 ELSE 0)
                /\ \A k \in 1..Len(found) :
                       /\ found[k].previous_value = ValueOf(Closest(tag_id))
                       /\ found[k].comparison_date = DateOf(Closest(tag_id))
                       /\ found[k].days_gap
                              = DateOf(Current(tag_id)) - DateOf(Closest(tag_id))
                       /\ found[k].current_value = ValueOf(Current(tag_id))
                /\ /\ Cardinality(PastRows(tag_id)) >= 2
                   /\ ValueOf(Current(tag_id)) = 1000
                   /\ \E i \in PastRows(tag_id) :
                          /\ DateOf(Current(tag_id)) - DateOf(i) = 2
                          /\ ValueOf(i) = 3000
                   /\ ~ \E i \in PastRows(tag_id) :
                            DateOf(Current(tag_id)) - DateOf(i) = 1
                   => Len(found) = 1 /\ found[1].days_gap = 2

\* C22 witness: the evaluation of the example, with the default thresholds
C22_Witness ==
    /\ Evaluated
    /\ last.thresholds = <<35, 20, 25>>
    /\ Len(AlertsOf(101, {"gap_tolerant"})) = 1
    /\ ValueOf(Current(101)) = 1000
    /\ AlertsOf(101, {"gap_tolerant"})[1].previous_value = 3000
    /\ AlertsOf(101, {"gap_tolerant"})[1].days_gap = 2
    /\ ~ \E i \in PastRows(101) : DateOf(Current(101)) - DateOf(i) = 1

\* the severity of a change of num / den percent with the given cut-offs
SeverityOf(num, den, high, medium) ==
    LET magnitude == IF num < 0 THEN 0 - num ELSE num
    IN  IF magnitude >= high * den THEN "high"
        ELSE IF magnitude >= medium * den THEN "medium"
        ELSE "low"

\* C23: the severity of an alert follows from its change_percent alone: for
\* day_over_day and gap_tolerant high from 50, medium from 35, else low (for
\* week_over_week 40 and 25, for week_over_week_increase 50 and 35); a
\* day_over_day alert of severity low occurs only with day_threshold below 35.
C23_SeverityFromMagnitude ==
    last.op = "alerts" =>
        \A k \in 1..Len(last.alerts) :
            LET a == last.alerts[k]
            IN  /\ a.alert_type \in {"day_over_day", "gap_tolerant"} =>
                       a.severity = SeverityOf(a.change_percent.num,
                                               a.change_percent.den, 50, 35)
                /\ a.alert_type = "week_over_week" =>
                       a.severity = SeverityOf(a.change_percent.num,
                                               a.change_percent.den, 40, 25)
                /\ a.alert_type = "week_over_week_increase" =>
                       a.severity = SeverityOf(a.change_percent.num,
                                               a.change_percent.den, 50, 35)
                /\ a.alert_type = "day_over_day" /\ a.severity = "low" =>
                       last.thresholds[1] < 35

\* C23 witness: with day_threshold 20 a day_over_day alert of severity low,
\* next to one of severity high for the other tag
C23_Witness ==
    /\ Evaluated
    /\ last.thresholds[1] = 20
    /\ \E k \in 1..Len(last.alerts) :
           last.alerts[k].alert_type = "day_over_day" /\ last.alerts[k].severity = "low"
    /\ \E k \in 1..Len(last.alerts) :
           last.alerts[k].alert_type = "day_over_day" /\ last.alerts[k].severity = "high"

---------------------------------------------------------------------------
(* Properties of the alert rules, checked under SpecRules *)

HasOverride(tag_id, alert_type) ==
    /\ tag_id \in DOMAIN rules.tag_specific_rules
    /\ "thresholds" \in DOMAIN rules.tag_specific_rules[tag_id]
    /\ alert_type \in DOMAIN rules.tag_specific_rules[tag_id]["thresholds"]

Override(tag_id, alert_type) ==
    rules.tag_specific_rules[tag_id]["thresholds"][alert_type]

\* the global threshold that matches an alert type, "" for a type without one
GlobalName(alert_type) ==
    CASE alert_type = "day_over_day" -> "day_over_day_drop"
      [] alert_type = "week_over_week" -> "week_over_week_drop"
      [] alert_type = "week_over_week_increase" -> "week_over_week_increase"
      [] alert_type = "gap_tolerant" -> "gap_tolerant_drop"
      [] OTHER -> ""

FallbackOf(alert_type) ==
    CASE alert_type = "week_over_week" -> 20
      [] alert_type = "week_over_week_increase" -> 25
      [] alert_type = "gap_tolerant" -> 28
      [] OTHER -> 35

\* C24 as claimed: the threshold is the override of the tag for the alert
\* type, else the matching global threshold, else 35.
C24_FallbackThirtyFive ==
    last.op = "get_threshold_for_tag" =>
        last.result =
            IF HasOverride(last.tag_id, last.alert_type)
            THEN Override(last.tag_id, last.alert_type)
            ELSE IF GlobalName(last.alert_type) \in DOMAIN rules.global_thresholds
            THEN rules.global_thresholds[GlobalName(last.alert_type)]
            ELSE 35

\* C24: the threshold is the override of the tag for the alert type, else the
\* matching global threshold, else the fallback of the alert type (35 for
\* day_over_day, 20 for week_over_week, 25 for week_over_week_increase, 28 for
\* gap_tolerant, 35 for any other type); a tag without a rule gets what it
\* would get with no tag rule at all.
C24_ThresholdLookup ==
    last.op = "get_threshold_for_tag" =>
        /\ last.result =
               IF HasOverride(last.tag_id, last.alert_type)
               THEN Override(last.tag_id, last.alert_type)
               ELSE IF GlobalName(last.alert_type) \in DOMAIN rules.global_thresholds
               THEN rules.global_thresholds[GlobalName(last.alert_type)]
               ELSE FallbackOf(last.alert_type)
        /\ ~HasOverride(last.tag_id, last.alert_type) =>
               last.result = get_threshold_for_tag(
                                 [rules EXCEPT !.tag_specific_rules = EmptyDict],
                                 last.tag_id, last.alert_type)

\* C24 witness: tag 101 has an override for day_over_day only and is asked for
\* week_over_week, for which the rule file has no global threshold
C24_Witness ==
    /\ last.op = "get_threshold_for_tag"
    /\ last.tag_id = 101 /\ last.alert_type = "week_over_week"
    /\ HasOverride(101, "day_over_day")
    /\ "week_over_week_drop" \notin DOMAIN rules.global_thresholds

\* C25 as claimed: with a day_over_day threshold of 10 set for tag 101 by
\* add_tag_rule, the evaluation of the document in which tag 101 drops by 15
\* percent gives a day_over_day alert for the tag; without the rule it gives
\* none.
C25_OverrideTakesEffect ==
    last.op = "alerts" /\ last.daily_data = FifteenPercentDoc(last.now).data =>
        Len(AlertsOf(101, {"day_over_day"}))
            = (IF HasOverride(101, "day_over_day") /\ Override(101, "day_over_day") = 10
               THEN 1 ELSE 0)

\* the time-based rules as configured let an alert pass at the time of the call
TimeRulesPass ==
    /\ rules.time_based_rules.business_hours_only =>
           last.weekday < 5 /\ last.minute >= 9 * 60 /\ last.minute < 18 * 60
    /\ ~rules.time_based_rules.weekend_alerts => last.weekday < 5

\* a custom condition passes for the alert and tag of the call
ConditionPasses(condition) ==
    CASE condition.type = "tag_pattern" ->
             \E e \in {1, 10, 100} : (last.tag_id \div e) % 10 = condition.pattern[1]
      [] condition.type = "severity_minimum" ->
             last.alert.severity \in
                 (IF condition.minimum = "high" THEN {"high"}
                  ELSE IF condition.minimum = "medium" THEN {"medium", "high"}
                  ELSE {"low", "medium", "high"})
      [] condition.type = "change_threshold" ->
             \/ last.alert.change_percent.num >= condition.threshold * last.alert.change_percent.den
             \/ 0 - last.alert.change_percent.num
                    >= condition.threshold * last.alert.change_percent.den
      [] condition.type = "time_range" ->
             condition.start_time <= last.minute /\ last.minute <= condition.end_time
      [] OTHER -> TRUE

\* C26: should_send_alert is true exactly when the time-based rules pass and
\* every custom condition of the rule set passes, in whatever order the
\* conditions stand; the frequency limits play no part.
C26_AllConditionsMustPass ==
    last.op = "should_send_alert" =>
        /\ last.result =
               (/\ TimeRulesPass
                /\ \A k \in 1..Len(rules.custom_conditions) :
                       ConditionPasses(rules.custom_conditions[k]))
        /\ last.result =
               should_send_alert(
                   [rules EXCEPT !.custom_conditions = Reverse(rules.custom_conditions),
                                 !.frequency_limits = [max_alerts_per_tag_per_day |-> 0,
                                                       cooldown_hours |-> 24]],
                   last.alert, last.tag_id, last.weekday, last.minute)

\* C26 witness: two conditions of different types, the first passes, the
\* second fails, and the alert is suppressed
C26_Witness ==
    /\ last.op = "should_send_alert"
    /\ Len(rules.custom_conditions) = 2
    /\ TimeRulesPass
    /\ ConditionPasses(rules.custom_conditions[1])
    /\ ~ConditionPasses(rules.custom_conditions[2])
    /\ last.result = FALSE

\* C27 as claimed: the rule set in memory equals the persisted one after any
\* sequence of changes, and a change whose save failed is reported as failed.
C27_MemoryMatchesFile ==
    /\ rules = rules_file
    /\ last.op \in {"add_tag_rule", "remove_tag_rule", "add_custom_condition",
                    "update_global_thresholds"} /\ ~last.ok => rules = rules_file

---------------------------------------------------------------------------
(* Properties of the rows of a document over time.                         *)

IsPrefixOf(s, t) == Len(s) <= Len(t) /\ \A i \in 1..Len(s) : t[i] = s[i]

\* a step keeps the rows of every document, contents and order, as a prefix
\* of the rows the document holds after the step
RowsKept == \A k \in DOMAIN store : IsPrefixOf(store[k].data, store'[k].data)

\* C28 as claimed: rows disappear from a document only through a purge, so
\* every step of merging calls, concurrent ones included, keeps the rows a
\* document holds as a prefix of its rows after the step.
C28_AppendOnly == [][RowsKept]_vars

---------------------------------------------------------------------------
(* Properties of the purges, checked under SpecPurge *)

\* the step is a run of clear_cache_by_tag
PurgeByTagStep == last.op = "none" /\ last'.op = "clear_cache_by_tag"

\* the tag_id cell of row i of a document, under the document's column list
TagOfRow(doc, i) == doc.data[i][IndexOf(doc.columns, "tag_id")]

\* the rows of a document without those of a tag, in the document's order
RowsWithoutTag(doc, tag_id) ==
    SelectSeq(doc.data, LAMBDA row : row[IndexOf(doc.columns, "tag_id")] # tag_id)

\* C29: clear_cache_by_tag(t), run between merges, leaves no row with tag_id
\* t in a seat or publisher document; the rows of a document afterwards are
\* its rows of the other tags, all of them and in their order; a document
\* that held rows of t and nothing else is deleted, every other document
\* stays with its column list; and the returned count is the number of
\* documents the call changed or deleted.
C29_PurgeByTag ==
    [][PurgeByTagStep =>
        /\ \A k \in DOMAIN store :
            /\ \A i \in 1..Len(store'[k].data) : TagOfRow(store'[k], i) # last'.tag_id
            /\ store'[k].data = RowsWithoutTag(store[k], last'.tag_id)
            /\ store'[k].exists =
                   (store[k].exists /\ (store[k].data = <<>> \/ store'[k].data # <<>>))
            /\ store'[k].exists => store'[k].columns = store[k].columns
        /\ last'.result = Cardinality({k \in DOMAIN store : store'[k] # store[k]})
    ]_vars

\* the purge of tag 101 took the middle one of three rows of the seat's
\* document, kept the two rows of tag 102 in their order, and deleted the
\* publisher's document, which held a row of tag 101 only
C29_Witness ==
    /\ last.op = "clear_cache_by_tag"
    /\ last.tag_id = 101
    /\ last.result = 2
    /\ Len(last.before.data) = 3
    /\ last.before.data[1][2] = 102
    /\ last.before.data[2][2] = 101
    /\ last.before.data[3][2] = 102
    /\ store[KeyOf("query1")].data = <<last.before.data[1], last.before.data[3]>>
    /\ ~store[KeyOf("query2")].exists

---------------------------------------------------------------------------
(* Properties of the planner's date normalization, checked under SpecPlan *)

\* a planner call or a reconciliation has run
PlannerRan == last.op \in {"plan", "reconcile"}

\* the request's to_date, normalized: at most yesterday
NormalizedTo == Min(last.date_to, last.now - 1)

\* C30: no planned range holds today or a later date: every range lies in
\* [from_date, min(to_date, yesterday)]; and when from_date is after the
\* normalized to_date the plan is empty, and a reconciliation then queries
\* nothing, writes nothing and returns no rows.
C30_NeverPlansToday ==
    PlannerRan =>
        /\ \A i \in 1..Len(last.plan) :
               /\ last.date_from <= last.plan[i][1]
               /\ last.plan[i][1] <= last.plan[i][2]
               /\ last.plan[i][2] <= NormalizedTo
        /\ last.date_from > NormalizedTo =>
               /\ last.plan = <<>>
               /\ last.op = "reconcile" =>
                      /\ last.calls = <<>>
                      /\ ~last.wrote
                      /\ store[KeyOf(last.query_type)] = last.before
                      /\ last.ret_rows = <<>>

\* a reconciliation was asked for yesterday up to tomorrow on a document that
\* holds rows, planned and queried yesterday alone and returned rows
C30_Witness ==
    /\ last.op = "reconcile"
    /\ last.date_to = last.now + 1
    /\ last.date_from < last.now - 1
    /\ last.before.exists
    /\ last.plan # <<>>
    /\ last.plan[Len(last.plan)][2] = last.now - 1
    /\ last.calls # <<>>
    /\ last.ret_rows # <<>>

---------------------------------------------------------------------------
(* Properties of api_alerts on malformed rows, checked under SpecBadRow *)

\* the rows of the evaluated document whose date_key is a date
WellFormedRows == SelectSeq(last.daily_data, LAMBDA row : ~strptime_raises(row[3]))

\* the tags of the evaluated document that have no malformed row
WellFormedTags ==
    {last.daily_data[i][2] : i \in 1..Len(last.daily_data)}
    \ {last.daily_data[i][2] :
          i \in {j \in 1..Len(last.daily_data) : strptime_raises(last.daily_data[j][3])}}

\* the alerts of a list for a tag
AlertsFor(alerts, tag_id) == SelectSeq(alerts, LAMBDA a : a.tag_id = tag_id)

\* C31 as claimed: the evaluation of a document yields for every tag without
\* a malformed row the alerts it yields for the document without the
\* malformed rows.
C31_BadRowIsolated ==
    last.op = "api_alerts" =>
        \A tag_id \in WellFormedTags :
            AlertsFor(last.alerts, tag_id)
                = AlertsFor(generate_comprehensive_alerts(WellFormedRows, last.columns,
                                last.now, DayThreshold, WeekThreshold,
                                WeekIncreaseThreshold).alerts, tag_id)

---------------------------------------------------------------------------
(* Properties of the documents stored by concurrent merges, checked under  *)
(* SpecRaceColumns                                                          *)

\* no two rows of the document share a (date_key, tag_id) pair
UniqueKeys(doc) ==
    \A i, j \in KeyedRows(doc) : i # j => DocKey(doc, i) # DocKey(doc, j)

\* no row of the document has a date_key of the processing date or later
NoFutureDate(doc) == \A i \in KeyedRows(doc) : ~StrGE(DocDate(doc, i), today)

\* C32 as claimed: whatever the interleaving of the reads and writes of two
\* merges, every document in the store has unique (date_key, tag_id) pairs
\* and no row dated today or later.
C32_StoredDocumentsValid ==
    \A k \in Keys : UniqueKeys(store[k]) /\ NoFutureDate(store[k])

---------------------------------------------------------------------------
(* Properties of a reconciliation on cached dates, checked under SpecPlan *)

\* the last call is a reconciliation of a request that is not empty and
\* whose dates all have a row in the document the call found
FullyCached ==
    /\ last.op = "reconcile"
    /\ last.date_from <= LastTo
    /\ Uncached = {}

\* C33: a reconciliation of a request whose dates all have a cached row
\* calls the provider for no range, writes nothing, leaves the document as it
\* was and returns, under the document's columns, the rows of the document
\* dated in the requested interval.
C33_CachedRequestIsReadOnly ==
    FullyCached =>
        /\ last.plan = <<>>
        /\ last.calls = <<>>
        /\ ~last.wrote
        /\ LastDoc = last.before
        /\ last.ret_columns = last.before.columns
        /\ last.ret_rows =
               SelectSeq(last.before.data,
                         LAMBDA row : row[IndexOf(last.before.columns, "date_key")]
                                          \in last.date_from..LastTo)

\* a reconciliation found every requested date cached and returned rows, while
\* the document holds rows of other dates too
C33_Witness ==
    /\ FullyCached
    /\ last.ret_rows # <<>>
    /\ Len(last.ret_rows) < Len(last.before.data)

---------------------------------------------------------------------------
(* Properties of dates without provider rows, checked under SpecPlan *)

\* the dates of the last reconciliation's request that were not cached when
\* it started and for which the provider holds no row
EmptyDates ==
    {d \in Uncached : ~HasData(last.behaviour, d)}

\* the dates of a plan
PlannedDates(plan) == UNION {Dates(plan[i]) : i \in 1..Len(plan)}

\* C34: a date of a reconciled request for which the provider has no row was
\* planned and queried by the call, has no row in the document afterwards,
\* and is planned again by find_missing_dates for every request whose range
\* contains it.
C34_EmptyDateStaysMissing ==
    last.op = "reconcile" =>
        \A d \in EmptyDates :
            /\ d \in PlannedDates(last.plan)
            /\ d \in PlannedDates(last.calls)
            /\ ~Stored(d)
            /\ \A date_from \in PlanFroms, date_to \in {d, last.date_to, PlanHorizon + 1} :
                   date_from <= d =>
                       d \in PlannedDates(find_missing_dates(LastDoc, date_from,
                                                             date_to, last.now))

\* a reconciliation was answered for every planned range and wrote rows, but
\* for some requested dates the provider had none
C34_Witness ==
    /\ last.op = "reconcile"
    /\ last.wrote
    /\ last.before.exists
    /\ EmptyDates # {}
    /\ \A k \in 1..Len(last.calls) :
           http_outcome(last.behaviour, last.calls[k][1], last.calls[k][2]) = "ok"

---------------------------------------------------------------------------
(* Properties of the rows a merge appends, checked under Spec *)

\* the rows the last merge added behind those the document held
AppendedRows == SubSeq(LastDoc.data, Len(last.before.data) + 1, Len(LastDoc.data))

\* the (date_key, tag_id) pair of a row under the columns of the last merge
MergeKey(row) ==
    combo_key(row, IndexOf(last.columns, "date_key"), IndexOf(last.columns, "tag_id"))

\* row has both cells of the pair
HasMergeKey(row) ==
    Len(row) >= Max(IndexOf(last.columns, "date_key"), IndexOf(last.columns, "tag_id"))

\* the first row of the batch with the pair of row
FirstOfKey(row) ==
    last.new_data[CHOOSE i \in 1..Len(last.new_data) :
        /\ HasMergeKey(last.new_data[i]) /\ MergeKey(last.new_data[i]) = MergeKey(row)
        /\ \A j \in 1..(i - 1) :
               ~(HasMergeKey(last.new_data[j])
                 /\ MergeKey(last.new_data[j]) = MergeKey(row))]

\* C35: a successful merge leaves the rows the document held as they were, at
\* their places; a row it appends has a pair that no stored row has and that
\* no other appended row has, and is the first row of the batch with that
\* pair.
C35_NeverUpdates ==
    last.op = "merge" /\ last.ok =>
        /\ IsPrefixOf(last.before.data, LastDoc.data)
        /\ \A k \in 1..Len(AppendedRows) :
            /\ \A i \in 1..Len(last.before.data) :
                   HasMergeKey(last.before.data[i]) =>
                       MergeKey(last.before.data[i]) # MergeKey(AppendedRows[k])
            /\ \A j \in 1..Len(AppendedRows) :
                   j # k => MergeKey(AppendedRows[j]) # MergeKey(AppendedRows[k])
            /\ AppendedRows[k] = FirstOfKey(AppendedRows[k])

\* a merge found a stored row with the pair of an incoming row of other
\* content and left the document as it was
C35_Witness ==
    /\ last.op = "merge" /\ last.ok
    /\ LastDoc.data = last.before.data
    /\ \E i \in 1..Len(last.new_data), j \in 1..Len(last.before.data) :
           /\ HasMergeKey(last.new_data[i])
           /\ HasMergeKey(last.before.data[j])
           /\ MergeKey(last.new_data[i]) = MergeKey(last.before.data[j])
           /\ last.new_data[i] # last.before.data[j]
           /\ ~StrGE(last.new_data[i][IndexOf(last.columns, "date_key")], last.now)

---------------------------------------------------------------------------
(* Properties of the 7-day sub-chunks, checked under SpecChunks *)

\* the sub-chunks the provider answers
AnsweredChunks ==
    {k \in 1..Len(last.calls) :
        http_outcome(last.behaviour, last.calls[k][1], last.calls[k][2]) = "ok"}

\* the provider rows of the dates of the answered sub-chunks
AnsweredRows ==
    {<<ProviderName, t, d>> :
        t \in ProviderTags,
        d \in {x \in last.date_from..last.date_to :
                  /\ HasData(last.behaviour, x)
                  /\ \E k \in AnsweredChunks : x \in Dates(last.calls[k])}}

\* C36: the sub-chunks queried for [date_from, date_to] start at date_from,
\* follow each other without gap or overlap, end at date_to and span at most
\* 7 days each; the rows returned are the rows of all answered sub-chunks,
\* each once, whatever happened to the other sub-chunks.
C36_SubChunksPartition ==
    last.op = "chunks" =>
        /\ (last.date_from > last.date_to) = (last.calls = <<>>)
        /\ last.calls # <<>> =>
               /\ last.calls[1][1] = last.date_from
               /\ last.calls[Len(last.calls)][2] = last.date_to
        /\ \A k \in 1..Len(last.calls) :
               /\ last.calls[k][1] <= last.calls[k][2]
               /\ last.calls[k][2] - last.calls[k][1] + 1 <= 7
               /\ k > 1 => last.calls[k][1] = last.calls[k - 1][2] + 1
        /\ Range(last.ret_rows) = AnsweredRows
        /\ Len(last.ret_rows) = Cardinality(AnsweredRows)

\* sixteen days were cut into three sub-chunks, the two of 7 days failed and
\* the rows of the third were returned
C36_Witness ==
    /\ last.op = "chunks"
    /\ Len(last.calls) = 3
    /\ AnsweredChunks = {3}
    /\ last.ret_rows # <<>>

---------------------------------------------------------------------------
(* Properties of a merge under another column list, checked under Spec *)

\* the last merge succeeded on a document with another column list
ColumnsChanged ==
    /\ last.op = "merge" /\ last.ok
    /\ last.before.exists
    /\ last.columns # last.before.columns

\* C37: after a successful merge whose column list differs from the one of
\* the document, the document has the incoming column list, and the rows it
\* held are its first rows still, each with the cells it had.
C37_ColumnsAdoptedRowsKept ==
    ColumnsChanged =>
        /\ LastDoc.columns = last.columns
        /\ Len(LastDoc.data) >= Len(last.before.data)
        /\ \A i \in 1..Len(last.before.data) : LastDoc.data[i] = last.before.data[i]

\* a merge under another column list appended a row behind a stored one
C37_Witness ==
    /\ ColumnsChanged
    /\ last.before.data # <<>>
    /\ Len(LastDoc.data) > Len(last.before.data)

---------------------------------------------------------------------------
(* Properties of the creation of a document, checked under Spec *)

\* C38 as claimed: a merge for an entity without a document creates the
\* document only when it appends a row; when every incoming row is dropped,
\* or there is none, the entity is left without a document.
C38_CreatedWithRows ==
    last.op = "merge" /\ ~last.before.exists /\ LastDoc.exists =>
        LastDoc.data # <<>>

---------------------------------------------------------------------------
(* Properties of the alerts of one tag taken together, checked under       *)
(* SpecAlert                                                                *)

\* C39: every day_over_day alert of an evaluation comes with a gap_tolerant
\* alert of the same evaluation for the same tag, with the same date, current
\* and previous value and comparison date, and days_gap = 1.
C39_DayAlertHasGapAlert ==
    Evaluated =>
        \A k \in 1..Len(last.alerts) :
            last.alerts[k].alert_type = "day_over_day" =>
                \E j \in 1..Len(last.alerts) :
                    /\ last.alerts[j].alert_type = "gap_tolerant"
                    /\ last.alerts[j].tag_id = last.alerts[k].tag_id
                    /\ last.alerts[j].date = last.alerts[k].date
                    /\ last.alerts[j].current_value = last.alerts[k].current_value
                    /\ last.alerts[j].previous_value = last.alerts[k].previous_value
                    /\ last.alerts[j].comparison_date = last.alerts[k].comparison_date
                    /\ last.alerts[j].change_percent = last.alerts[k].change_percent
                    /\ last.alerts[j].days_gap = 1

\* an evaluation gave tag 101 a day_over_day and a gap_tolerant alert, and
\* tag 102 as well
C39_Witness ==
    /\ Evaluated
    /\ \A tag_id \in AlertTags :
           /\ Len(AlertsOf(tag_id, {"day_over_day"})) = 1
           /\ Len(AlertsOf(tag_id, {"gap_tolerant"})) = 1
    /\ Len(AlertsOf(101, {"week_over_week", "week_over_week_increase"})) = 0

\* the tag ids of the rows of the evaluated document
EvaluatedTags == {last.daily_data[i][2] : i \in 1..Len(last.daily_data)}

\* the types of alert the engine produces
AllAlertTypes == {"day_over_day", "week_over_week", "week_over_week_increase", "gap_tolerant"}

\* C40: an evaluation of a document without a date_key or a tag_id column
\* gives no alert; otherwise every alert belongs to a tag of the document
\* with at least two rows before today and is dated at the most recent of
\* them, and a tag has at most one alert of a type and at most three alerts.
C40_AlertsPerTag ==
    last.op = "alerts" =>
        IF "date_key" \notin Range(last.columns) \/ "tag_id" \notin Range(last.columns)
        THEN last.alerts = <<>>
        ELSE /\ \A k \in 1..Len(last.alerts) :
                    /\ last.alerts[k].tag_id \in EvaluatedTags
                    /\ last.alerts[k].alert_type \in AllAlertTypes
                    /\ Cardinality(PastRows(last.alerts[k].tag_id)) >= 2
                    /\ last.alerts[k].date = DateOf(Current(last.alerts[k].tag_id))
             /\ \A tag_id \in EvaluatedTags :
                    /\ \A type \in AllAlertTypes : Len(AlertsOf(tag_id, {type})) <= 1
                    /\ Len(AlertsOf(tag_id, AllAlertTypes)) <= 3
                    /\ Cardinality(PastRows(tag_id)) < 2 =>
                           AlertsOf(tag_id, AllAlertTypes) = <<>>

\* an evaluation gave tag 101 three alerts, of three types, and none to tag
\* 102, which has one row
C40_Witness ==
    /\ Evaluated
    /\ Len(AlertsOf(101, AllAlertTypes)) = 3
    /\ Len(AlertsOf(101, {"day_over_day"})) = 1
    /\ Len(AlertsOf(101, {"gap_tolerant"})) = 1
    /\ \E k \in 1..Len(last.alerts) : last.alerts[k].date = last.now - 1
    /\ LaterRows(101) # {}

====
